---- MODULE Spec2Model ----
(***************************************************************************)
(* A model of the US tax calculator of mcps/accountant/tax_calculator.py   *)
(* (tax year 2024): the bracket evaluator, the preferential-rate stacking  *)
(* evaluator, the self-employment tax, the net-investment-income surtax,   *)
(* the child tax credit, the state tax and the orchestrator                *)
(* calculate_taxes.                                                        *)
(*                                                                         *)
(* Numbers.  The program computes in Python floats.  The model computes    *)
(* in exact decimal fixed point: an amount is a tuple of eight limbs in    *)
(* base 10^4, least significant first; limb 7 holds the dollars modulo     *)
(* 10^4, limb 8 (which carries the sign) the dollars divided by 10^4, and  *)
(* limbs 6..1 hold 24 decimal places.  The longest chain of products of    *)
(* the program (cents x 0.9235 x 0.124 x 0.5 x 0.075 x a state rate x      *)
(* 0.25) produces 23 decimal places, so every product below is exact.      *)
(* What the model leaves out is the binary rounding error of each float    *)
(* operation (relative 2^-53); where the program rounds a result to cents  *)
(* that error decides a half-cent, and round2 says so.                     *)
(*                                                                         *)
(* A rate is an integer number of ten-thousandths: 0.10 is 1000, 0.9235 is *)
(* 9235.  Mul(a, r) is the product of the amount a and the rate r.         *)
(***************************************************************************)
EXTENDS Integers, Sequences, FiniteSets, TLC

\* ------------------------------------------------------------------------
\* Exact decimal arithmetic (the float operations of the program)
\* ------------------------------------------------------------------------

Base == 100 * 100

\* The canonical form: limbs 1..7 in 0..Base-1, limb 8 any integer.
Norm(x) ==
    LET v1 == x[1]
        v2 == x[2] + (v1 \div Base)
        v3 == x[3] + (v2 \div Base)
        v4 == x[4] + (v3 \div Base)
        v5 == x[5] + (v4 \div Base)
        v6 == x[6] + (v5 \div Base)
        v7 == x[7] + (v6 \div Base)
        v8 == x[8] + (v7 \div Base)
    IN  <<v1 % Base, v2 % Base, v3 % Base, v4 % Base,
          v5 % Base, v6 % Base, v7 % Base, v8>>

\* a + b
Add(a, b) ==
    Norm(<<a[1] + b[1], a[2] + b[2], a[3] + b[3], a[4] + b[4],
           a[5] + b[5], a[6] + b[6], a[7] + b[7], a[8] + b[8]>>)

\* a - b
Sub(a, b) ==
    Norm(<<a[1] - b[1], a[2] - b[2], a[3] - b[3], a[4] - b[4],
           a[5] - b[5], a[6] - b[6], a[7] - b[7], a[8] - b[8]>>)

\* a * n for an integer n with |n| <= Base
Times(a, n) ==
    Norm(<<a[1] * n, a[2] * n, a[3] * n, a[4] * n,
           a[5] * n, a[6] * n, a[7] * n, a[8] * n>>)

\* a / 10^4 (limb 1 of a is 0 wherever the model uses it)
Shift(a) ==
    <<a[2], a[3], a[4], a[5], a[6], a[7], a[8] % Base, a[8] \div Base>>

\* a * r for a rate r in ten-thousandths
Mul(a, r) == Shift(Times(a, r))

\* The amount of c cents, and of d dollars
Cents(c) ==
    <<0, 0, 0, 0, 0, (c % 100) * 100, (c \div 100) % Base, (c \div 100) \div Base>>

Dollars(d) == <<0, 0, 0, 0, 0, 0, d % Base, d \div Base>>

Zero == Dollars(0)

IsNeg(a) == a[8] < 0

Lt(a, b) == IsNeg(Sub(a, b))

Leq(a, b) == ~Lt(b, a)

Gt(a, b) == Lt(b, a)

Geq(a, b) == ~Lt(a, b)

\* Python's max(a, b) and min(a, b)
Max(a, b) == IF Lt(a, b) THEN b ELSE a

Min(a, b) == IF Lt(b, a) THEN b ELSE a

\* float('inf'), the upper bound of every table's last bracket: no amount
\* reaches it.
Infinity == << >>

IsInf(b) == Len(b) = 0

\* min(a, bound) and a >= bound for a finite a and a bracket bound
MinBound(a, bound) == IF IsInf(bound) THEN a ELSE Min(a, bound)

GeqBound(a, bound) == ~IsInf(bound) /\ Geq(a, bound)

\* a <= prev for a finite a and the previous bracket bound
LeqBound(a, prev) == IsInf(prev) \/ Leq(a, prev)

\* The whole dollars of a: floor(a)
Floor(a) == a[8] * Base + a[7]

\* a // n for a whole number n > 0: floor(a / n), as an amount
FloorDiv(a, n) == Dollars(Floor(a) \div n)

\* The whole cents of a
InCents(a) == Floor(a) * 100 + (a[6] \div 100)

\* One step of the long division by g: the remainder 0 <= r < g takes the next
\* decimal digit d.  The result is <<quotient digit, remainder>>.
DivDigit(r, d, g) == <<(r * 10 + d) \div g, (r * 10 + d) % g>>

\* The long division of a limb of four decimal digits, after the remainder r
DivLimb(r, limb, g) ==
    LET s1 == DivDigit(r, limb \div 1000, g)
        s2 == DivDigit(s1[2], (limb \div 100) % 10, g)
        s3 == DivDigit(s2[2], (limb \div 10) % 10, g)
        s4 == DivDigit(s3[2], limb % 10, g)
    IN  <<s1[1] * 1000 + s2[1] * 100 + s3[1] * 10 + s4[1], s4[2]>>

\* a / g for an amount a and a whole number g > 0, rounded down to the 24
\* decimals that an amount has
Divide(a, g) ==
    LET s8 == <<a[8] \div g, a[8] % g>>
        s7 == DivLimb(s8[2], a[7], g)
        s6 == DivLimb(s7[2], a[6], g)
        s5 == DivLimb(s6[2], a[5], g)
        s4 == DivLimb(s5[2], a[4], g)
        s3 == DivLimb(s4[2], a[3], g)
        s2 == DivLimb(s3[2], a[2], g)
        s1 == DivLimb(s2[2], a[1], g)
    IN  <<s1[1], s2[1], s3[1], s4[1], s5[1], s6[1], s7[1], s8[1]>>

\* round(a, 2).  Python rounds the double that carries a, correctly, to the
\* nearest cent.  That double differs from a by the rounding errors of the
\* operations that produced it, so for an amount within 10^-8 of a half-cent
\* the cent depends on the side of the half-cent the double lies on: up says
\* that it lies above.  Every other amount goes to the nearest cent.
NearHalfCent(a) ==
    \/ a[6] % 100 = 50 /\ a[5] = 0
    \/ a[6] % 100 = 49 /\ a[5] = Base - 1

round2(a, up) ==
    LET down == Floor(a) * 100 + (a[6] \div 100)
    IN  IF NearHalfCent(a) THEN Cents(down + (IF up THEN 1 ELSE 0))
        ELSE IF a[6] % 100 >= 50 THEN Cents(down + 1)
        ELSE Cents(down)

\* round(r * 100, 1) for a rate r: the rate in tenths of a percent.  The
\* rates of the tables are whole percents, which this leaves as they are.
round1_percent(r) == IF r % 10 >= 5 THEN (r \div 10) + 1 ELSE r \div 10

\* ------------------------------------------------------------------------
\* State
\* ------------------------------------------------------------------------

VARIABLES
    pc,       \* "called": the arguments are bound; "returned": ret is set;
              \* in between, the step calculate_taxes runs next
    call,     \* the function invoked and its arguments
    ret,      \* the value it returned
    locals,   \* calculate_taxes only: the local variables set so far
    tables,   \* the module's globals: the tax tables and rates
    earlier,  \* the invocations that have returned before this one
    peer      \* a second invocation that runs concurrently, or None

vars == <<pc, call, ret, locals, tables, earlier, peer>>

None == [none |-> TRUE]

\* ------------------------------------------------------------------------
\* The 2024 tax tables
\* ------------------------------------------------------------------------

SINGLE == "single"

MARRIED_JOINT == "married_joint"

MARRIED_SEPARATE == "married_separate"

HEAD_HOUSEHOLD == "head_household"

WIDOW == "qualifying_widow"

FilingStatus == {SINGLE, MARRIED_JOINT, MARRIED_SEPARATE, HEAD_HOUSEHOLD, WIDOW}

\* dict.get(key, default)
Get(dict, key, default) == IF key \in DOMAIN dict THEN dict[key] ELSE default

\* A bracket is <<upper bound, rate>>.
FEDERAL_BRACKETS_2024 ==
    (SINGLE :> << <<Dollars(11600), 1000>>, <<Dollars(47150), 1200>>,
                  <<Dollars(100525), 2200>>, <<Dollars(191950), 2400>>,
                  <<Dollars(243725), 3200>>, <<Dollars(609350), 3500>>,
                  <<Infinity, 3700>> >>)
    @@ (MARRIED_JOINT :> << <<Dollars(23200), 1000>>, <<Dollars(94300), 1200>>,
                  <<Dollars(201050), 2200>>, <<Dollars(383900), 2400>>,
                  <<Dollars(487450), 3200>>, <<Dollars(731200), 3500>>,
                  <<Infinity, 3700>> >>)
    @@ (MARRIED_SEPARATE :> << <<Dollars(11600), 1000>>, <<Dollars(47150), 1200>>,
                  <<Dollars(100525), 2200>>, <<Dollars(191950), 2400>>,
                  <<Dollars(243725), 3200>>, <<Dollars(365600), 3500>>,
                  <<Infinity, 3700>> >>)
    @@ (HEAD_HOUSEHOLD :> << <<Dollars(16550), 1000>>, <<Dollars(63100), 1200>>,
                  <<Dollars(100500), 2200>>, <<Dollars(191950), 2400>>,
                  <<Dollars(243700), 3200>>, <<Dollars(609350), 3500>>,
                  <<Infinity, 3700>> >>)

LTCG_BRACKETS_2024 ==
    (SINGLE :> << <<Dollars(47025), 0>>, <<Dollars(518900), 1500>>,
                  <<Infinity, 2000>> >>)
    @@ (MARRIED_JOINT :> << <<Dollars(94050), 0>>, <<Dollars(583750), 1500>>,
                  <<Infinity, 2000>> >>)

STANDARD_DEDUCTION_2024 ==
    (SINGLE :> Dollars(14600)) @@ (MARRIED_JOINT :> Dollars(29200))
    @@ (MARRIED_SEPARATE :> Dollars(14600)) @@ (HEAD_HOUSEHOLD :> Dollars(21900))
    @@ (WIDOW :> Dollars(29200))

ADDITIONAL_DEDUCTION_2024 ==
    (SINGLE :> Dollars(1950)) @@ (MARRIED_JOINT :> Dollars(1550))
    @@ (MARRIED_SEPARATE :> Dollars(1550)) @@ (HEAD_HOUSEHOLD :> Dollars(1950))

NIIT_THRESHOLD_2024 ==
    (SINGLE :> Dollars(200000)) @@ (MARRIED_JOINT :> Dollars(250000))
    @@ (MARRIED_SEPARATE :> Dollars(125000)) @@ (HEAD_HOUSEHOLD :> Dollars(200000))

\* Defined by the program and read by none of its functions.
SE_TAX_RATE_2024 == 1530

SS_WAGE_BASE_2024 == Dollars(168600)

MEDICARE_ADDITIONAL_RATE_2024 == 90

\* A state code is a string; the model writes it as the tuple of its
\* characters, so that upper() is an operation on it.
STATE_TAX_RATES_2024 ==
    (<<"C", "A">> :> 1330) @@ (<<"N", "Y">> :> 1090) @@ (<<"T", "X">> :> 0)
    @@ (<<"F", "L">> :> 0) @@ (<<"W", "A">> :> 0) @@ (<<"N", "V">> :> 0)
    @@ (<<"W", "Y">> :> 0) @@ (<<"S", "D">> :> 0) @@ (<<"A", "K">> :> 0)
    @@ (<<"T", "N">> :> 0) @@ (<<"N", "H">> :> 0) @@ (<<"N", "J">> :> 1075)
    @@ (<<"M", "A">> :> 900) @@ (<<"I", "L">> :> 495) @@ (<<"P", "A">> :> 307)
    @@ (<<"A", "Z">> :> 250) @@ (<<"C", "O">> :> 440) @@ (<<"G", "A">> :> 549)
    @@ (<<"N", "C">> :> 525) @@ (<<"V", "A">> :> 575) @@ (<<"O", "H">> :> 399)
    @@ (<<"M", "I">> :> 425) @@ (<<"M", "N">> :> 985) @@ (<<"O", "R">> :> 990)
    @@ (<<"H", "I">> :> 1100)

SALT_CAP_2024 == Dollars(10000)

\* The module's globals as the import leaves them
TaxTables ==
    [FEDERAL_BRACKETS |-> FEDERAL_BRACKETS_2024,
     LTCG_BRACKETS |-> LTCG_BRACKETS_2024,
     STANDARD_DEDUCTION |-> STANDARD_DEDUCTION_2024,
     ADDITIONAL_DEDUCTION |-> ADDITIONAL_DEDUCTION_2024,
     NIIT_THRESHOLD |-> NIIT_THRESHOLD_2024,
     SE_TAX_RATE |-> SE_TAX_RATE_2024,
     SS_WAGE_BASE |-> SS_WAGE_BASE_2024,
     MEDICARE_ADDITIONAL_RATE |-> MEDICARE_ADDITIONAL_RATE_2024,
     STATE_TAX_RATES |-> STATE_TAX_RATES_2024,
     SALT_CAP |-> SALT_CAP_2024]

\* The globals as the functions read them
FEDERAL_BRACKETS == tables.FEDERAL_BRACKETS

LTCG_BRACKETS == tables.LTCG_BRACKETS

STANDARD_DEDUCTION == tables.STANDARD_DEDUCTION

ADDITIONAL_DEDUCTION == tables.ADDITIONAL_DEDUCTION

NIIT_THRESHOLD == tables.NIIT_THRESHOLD

SE_TAX_RATE == tables.SE_TAX_RATE

SS_WAGE_BASE == tables.SS_WAGE_BASE

MEDICARE_ADDITIONAL_RATE == tables.MEDICARE_ADDITIONAL_RATE

STATE_TAX_RATES == tables.STATE_TAX_RATES

SALT_CAP == tables.SALT_CAP

\* ------------------------------------------------------------------------
\* calculate_federal_tax
\* ------------------------------------------------------------------------

\* federal_loop with the slice min(taxable_income, bracket_max) not reduced
\* by prev_bracket.
RECURSIVE federal_loop_no_floor(_, _, _, _, _, _)
federal_loop_no_floor(brackets, i, taxable_income, tax, prev_bracket, marginal_rate) ==
    IF i > Len(brackets) THEN [tax |-> tax, marginal_rate |-> marginal_rate]
    ELSE LET bracket_max == brackets[i][1]
             rate == brackets[i][2]
         IN  IF LeqBound(taxable_income, prev_bracket)
             THEN [tax |-> tax, marginal_rate |-> marginal_rate]
             ELSE LET taxable_in_bracket == MinBound(taxable_income, bracket_max)
                  IN  federal_loop_no_floor(brackets, i + 1, taxable_income,
                                   Add(tax, Mul(taxable_in_bracket, rate)),
                                   bracket_max, rate)

\* federal_loop with "tax = ..." for "tax += ...": only the last slice is taxed.
RECURSIVE federal_loop_assign(_, _, _, _, _, _)
federal_loop_assign(brackets, i, taxable_income, tax, prev_bracket, marginal_rate) ==
    IF i > Len(brackets) THEN [tax |-> tax, marginal_rate |-> marginal_rate]
    ELSE LET bracket_max == brackets[i][1]
             rate == brackets[i][2]
         IN  IF LeqBound(taxable_income, prev_bracket)
             THEN [tax |-> tax, marginal_rate |-> marginal_rate]
             ELSE LET taxable_in_bracket ==
                          Sub(MinBound(taxable_income, bracket_max), prev_bracket)
                  IN  federal_loop_assign(brackets, i + 1, taxable_income,
                                   Mul(taxable_in_bracket, rate),
                                   bracket_max, rate)

\* federal_loop leaving the loop on "taxable_income < prev_bracket".
RECURSIVE federal_loop_strict(_, _, _, _, _, _)
federal_loop_strict(brackets, i, taxable_income, tax, prev_bracket, marginal_rate) ==
    IF i > Len(brackets) THEN [tax |-> tax, marginal_rate |-> marginal_rate]
    ELSE LET bracket_max == brackets[i][1]
             rate == brackets[i][2]
         IN  IF ~IsInf(prev_bracket) /\ Lt(taxable_income, prev_bracket)
             THEN [tax |-> tax, marginal_rate |-> marginal_rate]
             ELSE LET taxable_in_bracket ==
                          Sub(MinBound(taxable_income, bracket_max), prev_bracket)
                  IN  federal_loop_strict(brackets, i + 1, taxable_income,
                                   Add(tax, Mul(taxable_in_bracket, rate)),
                                   bracket_max, rate)

\* The loop over the brackets from bracket i on, with the loop's variables.
RECURSIVE federal_loop(_, _, _, _, _, _)
federal_loop(brackets, i, taxable_income, tax, prev_bracket, marginal_rate) ==
    IF i > Len(brackets) THEN [tax |-> tax, marginal_rate |-> marginal_rate]
    ELSE LET bracket_max == brackets[i][1]
             rate == brackets[i][2]
         IN  IF LeqBound(taxable_income, prev_bracket)
             THEN [tax |-> tax, marginal_rate |-> marginal_rate]
             ELSE LET taxable_in_bracket ==
                          Sub(MinBound(taxable_income, bracket_max), prev_bracket)
                  IN  federal_loop(brackets, i + 1, taxable_income,
                                   Add(tax, Mul(taxable_in_bracket, rate)),
                                   bracket_max, rate)

\* A variant of calculate_federal_tax that falls back to the married_joint
\* table.
federal_tax_joint_fallback(taxable_income, filing_status) ==
    LET brackets == Get(FEDERAL_BRACKETS, filing_status, FEDERAL_BRACKETS[MARRIED_JOINT])
    IN  federal_loop(brackets, 1, taxable_income, Zero, Zero, 1000)

calculate_federal_tax(taxable_income, filing_status) ==
    LET brackets == Get(FEDERAL_BRACKETS, filing_status, FEDERAL_BRACKETS[SINGLE])
    IN  federal_loop(brackets, 1, taxable_income, Zero, Zero, 1000)

\* ------------------------------------------------------------------------
\* calculate_ltcg_tax
\* ------------------------------------------------------------------------

\* What the walk over the preferential brackets leaves: the tax, and two
\* observations of the walk that the program does not keep: the total
\* width of the slices it taxed and the number of brackets it looked at.
LtcgResult(tax, taxed, walked) == [tax |-> tax, taxed |-> taxed, walked |-> walked]

\* ltcg_loop with bracket_start = prev_bracket: the ordinary income below
\* the preferential stack is taxed with it.
RECURSIVE ltcg_loop_from_prev(_, _, _, _, _, _, _, _)
ltcg_loop_from_prev(brackets, i, ordinary_income, total_ltcg, tax, prev_bracket, taxed, walked) ==
    IF i > Len(brackets) THEN LtcgResult(tax, taxed, walked)
    ELSE LET bracket_max == brackets[i][1]
             rate == brackets[i][2]
         IN  IF GeqBound(ordinary_income, bracket_max)
             THEN ltcg_loop_from_prev(brackets, i + 1, ordinary_income, total_ltcg,
                                      tax, bracket_max, taxed, walked + 1)
             ELSE LET bracket_start == prev_bracket
                      bracket_end ==
                          MinBound(Add(ordinary_income, total_ltcg), bracket_max)
                      width == Sub(bracket_end, bracket_start)
                      slice == Gt(bracket_end, bracket_start)
                      tax1 == IF slice THEN Add(tax, Mul(width, rate)) ELSE tax
                      taxed1 == IF slice THEN Add(taxed, width) ELSE taxed
                  IN  IF Geq(bracket_end, Add(ordinary_income, total_ltcg))
                      THEN LtcgResult(tax1, taxed1, walked + 1)
                      ELSE ltcg_loop_from_prev(brackets, i + 1, ordinary_income,
                                               total_ltcg, tax1, bracket_max,
                                               taxed1, walked + 1)

\* ltcg_loop taxing the whole of the stack's part above bracket_start at the
\* rate of the bracket that holds the top of the stack: bracket_start is not
\* raised to prev_bracket.
RECURSIVE ltcg_loop_top_rate(_, _, _, _, _, _, _, _)
ltcg_loop_top_rate(brackets, i, ordinary_income, total_ltcg, tax, prev_bracket, taxed, walked) ==
    IF i > Len(brackets) THEN LtcgResult(tax, taxed, walked)
    ELSE LET bracket_max == brackets[i][1]
             rate == brackets[i][2]
         IN  IF GeqBound(ordinary_income, bracket_max)
             THEN ltcg_loop_top_rate(brackets, i + 1, ordinary_income, total_ltcg,
                                     tax, bracket_max, taxed, walked + 1)
             ELSE LET bracket_start == Max(ordinary_income, Zero)
                      bracket_end ==
                          MinBound(Add(ordinary_income, total_ltcg), bracket_max)
                      width == Sub(bracket_end, bracket_start)
                      slice == Gt(bracket_end, bracket_start)
                      tax1 == IF slice THEN Mul(width, rate) ELSE tax
                      taxed1 == IF slice THEN width ELSE taxed
                  IN  IF Geq(bracket_end, Add(ordinary_income, total_ltcg))
                      THEN LtcgResult(tax1, taxed1, walked + 1)
                      ELSE ltcg_loop_top_rate(brackets, i + 1, ordinary_income,
                                              total_ltcg, tax1, bracket_max,
                                              taxed1, walked + 1)

\* The loop over the brackets from bracket i on, with the loop's variables.
RECURSIVE ltcg_loop(_, _, _, _, _, _, _, _)
ltcg_loop(brackets, i, ordinary_income, total_ltcg, tax, prev_bracket, taxed, walked) ==
    IF i > Len(brackets) THEN LtcgResult(tax, taxed, walked)
    ELSE LET bracket_max == brackets[i][1]
             rate == brackets[i][2]
         IN  IF GeqBound(ordinary_income, bracket_max)
             THEN \* continue
                  ltcg_loop(brackets, i + 1, ordinary_income, total_ltcg,
                            tax, bracket_max, taxed, walked + 1)
             ELSE LET bracket_start == Max(ordinary_income, prev_bracket)
                      bracket_end ==
                          MinBound(Add(ordinary_income, total_ltcg), bracket_max)
                      width == Sub(bracket_end, bracket_start)
                      slice == Gt(bracket_end, bracket_start)
                      tax1 == IF slice THEN Add(tax, Mul(width, rate)) ELSE tax
                      taxed1 == IF slice THEN Add(taxed, width) ELSE taxed
                  IN  IF Geq(bracket_end, Add(ordinary_income, total_ltcg))
                      THEN \* break
                           LtcgResult(tax1, taxed1, walked + 1)
                      ELSE ltcg_loop(brackets, i + 1, ordinary_income, total_ltcg,
                                     tax1, bracket_max, taxed1, walked + 1)

\* The body of calculate_ltcg_tax, with the observations of its walk.
ltcg_walk(ltcg, qualified_dividends, taxable_income, filing_status) ==
    LET total_ltcg == Add(ltcg, qualified_dividends)
    IN  IF Leq(total_ltcg, Zero) THEN LtcgResult(Zero, Zero, 0)
        ELSE LET brackets ==
                     Get(LTCG_BRACKETS, filing_status, LTCG_BRACKETS[SINGLE])
                 ordinary_income == Sub(taxable_income, total_ltcg)
             IN  ltcg_loop(brackets, 1, ordinary_income, total_ltcg,
                           Zero, Zero, Zero, 0)

calculate_ltcg_tax(ltcg, qualified_dividends, taxable_income, filing_status) ==
    ltcg_walk(ltcg, qualified_dividends, taxable_income, filing_status).tax

\* ------------------------------------------------------------------------
\* calculate_se_tax, calculate_niit, calculate_child_tax_credit,
\* calculate_state_tax
\* ------------------------------------------------------------------------

\* Returns <<se_tax, deduction>>.
calculate_se_tax(self_employment_income) ==
    IF Leq(self_employment_income, Zero) THEN <<Zero, Zero>>
    ELSE LET net_se == Mul(self_employment_income, 9235)
             ss_taxable == Min(net_se, SS_WAGE_BASE)
             ss_tax == Mul(ss_taxable, 1240)
             medicare_tax ==
                 IF Gt(net_se, Dollars(200000))
                 THEN Add(Mul(net_se, 290),
                          Mul(Sub(net_se, Dollars(200000)), MEDICARE_ADDITIONAL_RATE))
                 ELSE Mul(net_se, 290)
             total_se_tax == Add(ss_tax, medicare_tax)
             se_deduction == Mul(total_se_tax, 5000)
         IN  <<total_se_tax, se_deduction>>

calculate_niit(magi, investment_income, filing_status) ==
    LET threshold == Get(NIIT_THRESHOLD, filing_status, Dollars(200000))
    IN  IF Leq(magi, threshold) THEN Zero
        ELSE LET excess == Sub(magi, threshold)
                 taxable == Min(excess, investment_income)
             IN  Mul(taxable, 380)

\* A variant of calculate_child_tax_credit that reduces the credit by 5% of
\* the excess, without the steps of 1,000.
child_tax_credit_smooth(children_under_17, children_17_plus, agi, filing_status) ==
    LET credit == Dollars(children_under_17 * 2000 + children_17_plus * 500)
        threshold == IF filing_status = MARRIED_JOINT THEN Dollars(400000)
                     ELSE Dollars(200000)
    IN  IF Gt(agi, threshold)
        THEN LET reduction == Mul(Sub(agi, threshold), 500)
             IN  Max(Zero, Sub(credit, reduction))
        ELSE credit

calculate_child_tax_credit(children_under_17, children_17_plus, agi, filing_status) ==
    LET credit == Dollars(children_under_17 * 2000 + children_17_plus * 500)
        threshold == IF filing_status = MARRIED_JOINT THEN Dollars(400000)
                     ELSE Dollars(200000)
    IN  IF Gt(agi, threshold)
        THEN LET reduction == Times(FloorDiv(Sub(agi, threshold), 1000), 50)
             IN  Max(Zero, Sub(credit, reduction))
        ELSE credit

\* str.upper() on ASCII text: each small letter becomes its capital
Lowercase ==
    <<"a", "b", "c", "d", "e", "f", "g", "h", "i", "j", "k", "l", "m",
      "n", "o", "p", "q", "r", "s", "t", "u", "v", "w", "x", "y", "z">>

Uppercase ==
    <<"A", "B", "C", "D", "E", "F", "G", "H", "I", "J", "K", "L", "M",
      "N", "O", "P", "Q", "R", "S", "T", "U", "V", "W", "X", "Y", "Z">>

UpperChar(c) ==
    IF \E i \in DOMAIN Lowercase : Lowercase[i] = c
    THEN Uppercase[CHOOSE i \in DOMAIN Lowercase : Lowercase[i] = c]
    ELSE c

Upper(state) == [i \in DOMAIN state |-> UpperChar(state[i])]

\* A variant of calculate_state_tax that looks the code up as it is written.
state_tax_case_sensitive(taxable_income, state) ==
    LET rate == Get(STATE_TAX_RATES, state, 500)
    IN  Mul(taxable_income, rate)

calculate_state_tax(taxable_income, state) ==
    LET rate == Get(STATE_TAX_RATES, Upper(state), 500)
    IN  Mul(taxable_income, rate)

\* ------------------------------------------------------------------------
\* calculate_taxes
\* ------------------------------------------------------------------------

\* TaxInput() with the defaults of its fields
TaxInputDefault ==
    [wages |-> Zero, self_employment |-> Zero, interest |-> Zero,
     dividends_qualified |-> Zero, dividends_ordinary |-> Zero,
     short_term_gains |-> Zero, long_term_gains |-> Zero,
     rental_income |-> Zero, k1_income |-> Zero, other_income |-> Zero,
     mortgage_interest |-> Zero, property_tax |-> Zero,
     state_tax_paid |-> Zero, charitable |-> Zero, medical |-> Zero,
     traditional_401k |-> Zero, traditional_ira |-> Zero, hsa |-> Zero,
     children_under_17 |-> 0, children_17_plus |-> 0,
     education_expenses |-> Zero,
     filing_status |-> SINGLE, state |-> <<"C", "A">>,
     age_65_plus |-> FALSE, spouse_age_65_plus |-> FALSE]

\* The steps of calculate_taxes.  Each takes the local variables l that the
\* steps before it have set and returns them with its own added.

\* Step 1: Calculate Gross Income
step1_gross_income(tax_input) ==
    [gross_income |->
        Add(tax_input.wages,
        Add(tax_input.self_employment,
        Add(tax_input.interest,
        Add(tax_input.dividends_qualified,
        Add(tax_input.dividends_ordinary,
        Add(tax_input.short_term_gains,
        Add(tax_input.long_term_gains,
        Add(tax_input.rental_income,
        Add(tax_input.k1_income, tax_input.other_income)))))))))]

\* A variant of step 2 that counts the 401(k) contribution as an adjustment.
step2_adjusts_401k(l, tax_input) ==
    LET se == calculate_se_tax(tax_input.self_employment)
    IN  [se_tax |-> se[1],
         se_deduction |-> se[2],
         adjustments |-> Add(se[2], Add(tax_input.traditional_ira,
                                        Add(tax_input.hsa, tax_input.traditional_401k)))]
        @@ l

\* A variant of step 2 that leaves the self-employment tax to a later step.
step2_defers_se_tax(l, tax_input) ==
    LET se == calculate_se_tax(tax_input.self_employment)
    IN  [adjustments |-> Add(se[2], Add(tax_input.traditional_ira, tax_input.hsa))]
        @@ l

\* Step 2: Calculate Adjustments (Above-the-line deductions)
step2_adjustments(l, tax_input) ==
    LET se == calculate_se_tax(tax_input.self_employment)
    IN  [se_tax |-> se[1],
         se_deduction |-> se[2],
         adjustments |-> Add(se[2], Add(tax_input.traditional_ira, tax_input.hsa))]
        @@ l

\* A variant of step 3 that clips the AGI at zero.
step3_agi_clipped(l, tax_input) ==
    [agi |-> Max(Zero, Sub(l.gross_income, l.adjustments))] @@ l

\* Step 3: Calculate AGI
step3_agi(l, tax_input) ==
    [agi |-> Sub(l.gross_income, l.adjustments)] @@ l

\* A variant of step 4 that itemizes also when the two amounts are equal.
step4_itemize_on_tie(l, tax_input) ==
    LET standard0 == STANDARD_DEDUCTION[tax_input.filing_status]
        standard1 ==
            IF tax_input.age_65_plus
            THEN Add(standard0,
                     Get(ADDITIONAL_DEDUCTION, tax_input.filing_status, Dollars(1550)))
            ELSE standard0
        standard ==
            IF tax_input.spouse_age_65_plus /\ tax_input.filing_status = MARRIED_JOINT
            THEN Add(standard1,
                     Get(ADDITIONAL_DEDUCTION, tax_input.filing_status, Dollars(1550)))
            ELSE standard1
        salt == Min(Add(tax_input.property_tax, tax_input.state_tax_paid), SALT_CAP)
        medical_deductible == Max(Zero, Sub(tax_input.medical, Mul(l.agi, 750)))
        itemized ==
            Add(tax_input.mortgage_interest,
            Add(salt, Add(tax_input.charitable, medical_deductible)))
    IN  [standard |-> standard, salt |-> salt,
         medical_deductible |-> medical_deductible, itemized |-> itemized,
         deductions |-> IF Geq(itemized, standard) THEN itemized ELSE standard,
         deduction_type |-> IF Geq(itemized, standard) THEN "itemized" ELSE "standard"]
        @@ l

\* A variant of step 4 that grants the spouse add-on under every filing status.
step4_spouse_any_status(l, tax_input) ==
    LET standard0 == STANDARD_DEDUCTION[tax_input.filing_status]
        standard1 ==
            IF tax_input.age_65_plus
            THEN Add(standard0,
                     Get(ADDITIONAL_DEDUCTION, tax_input.filing_status, Dollars(1550)))
            ELSE standard0
        standard ==
            IF tax_input.spouse_age_65_plus
            THEN Add(standard1,
                     Get(ADDITIONAL_DEDUCTION, tax_input.filing_status, Dollars(1550)))
            ELSE standard1
        salt == Min(Add(tax_input.property_tax, tax_input.state_tax_paid), SALT_CAP)
        medical_deductible == Max(Zero, Sub(tax_input.medical, Mul(l.agi, 750)))
        itemized ==
            Add(tax_input.mortgage_interest,
            Add(salt, Add(tax_input.charitable, medical_deductible)))
    IN  [standard |-> standard, salt |-> salt,
         medical_deductible |-> medical_deductible, itemized |-> itemized,
         deductions |-> IF Gt(itemized, standard) THEN itemized ELSE standard,
         deduction_type |-> IF Gt(itemized, standard) THEN "itemized" ELSE "standard"]
        @@ l

\* A variant of step 4 that deducts the state and local taxes in full.
step4_salt_uncapped(l, tax_input) ==
    LET standard0 == STANDARD_DEDUCTION[tax_input.filing_status]
        standard1 ==
            IF tax_input.age_65_plus
            THEN Add(standard0,
                     Get(ADDITIONAL_DEDUCTION, tax_input.filing_status, Dollars(1550)))
            ELSE standard0
        standard ==
            IF tax_input.spouse_age_65_plus /\ tax_input.filing_status = MARRIED_JOINT
            THEN Add(standard1,
                     Get(ADDITIONAL_DEDUCTION, tax_input.filing_status, Dollars(1550)))
            ELSE standard1
        salt == Add(tax_input.property_tax, tax_input.state_tax_paid)
        medical_deductible == Max(Zero, Sub(tax_input.medical, Mul(l.agi, 750)))
        itemized ==
            Add(tax_input.mortgage_interest,
            Add(salt, Add(tax_input.charitable, medical_deductible)))
    IN  [standard |-> standard, salt |-> salt,
         medical_deductible |-> medical_deductible, itemized |-> itemized,
         deductions |-> IF Gt(itemized, standard) THEN itemized ELSE standard,
         deduction_type |-> IF Gt(itemized, standard) THEN "itemized" ELSE "standard"]
        @@ l

\* Step 4: Calculate Deductions
step4_deductions(l, tax_input) ==
    LET standard0 == STANDARD_DEDUCTION[tax_input.filing_status]
        standard1 ==
            IF tax_input.age_65_plus
            THEN Add(standard0,
                     Get(ADDITIONAL_DEDUCTION, tax_input.filing_status, Dollars(1550)))
            ELSE standard0
        standard ==
            IF tax_input.spouse_age_65_plus /\ tax_input.filing_status = MARRIED_JOINT
            THEN Add(standard1,
                     Get(ADDITIONAL_DEDUCTION, tax_input.filing_status, Dollars(1550)))
            ELSE standard1
        salt == Min(Add(tax_input.property_tax, tax_input.state_tax_paid), SALT_CAP)
        medical_deductible == Max(Zero, Sub(tax_input.medical, Mul(l.agi, 750)))
        itemized ==
            Add(tax_input.mortgage_interest,
            Add(salt, Add(tax_input.charitable, medical_deductible)))
    IN  [standard |-> standard, salt |-> salt,
         medical_deductible |-> medical_deductible, itemized |-> itemized,
         deductions |-> IF Gt(itemized, standard) THEN itemized ELSE standard,
         deduction_type |-> IF Gt(itemized, standard) THEN "itemized" ELSE "standard"]
        @@ l

\* A variant of step 5 that does not clip the ordinary part at zero.
step5_ordinary_unclipped(l, tax_input) ==
    LET preferential_income ==
            Add(tax_input.long_term_gains, tax_input.dividends_qualified)
        taxable_income == Max(Zero, Sub(l.agi, l.deductions))
    IN  [preferential_income |-> preferential_income,
         taxable_income |-> taxable_income,
         ordinary_taxable |-> Sub(taxable_income, preferential_income)]
        @@ l

\* A variant of step 5 that does not clip the taxable income at zero.
step5_taxable_unclipped(l, tax_input) ==
    LET preferential_income ==
            Add(tax_input.long_term_gains, tax_input.dividends_qualified)
        taxable_income == Sub(l.agi, l.deductions)
    IN  [preferential_income |-> preferential_income,
         taxable_income |-> taxable_income,
         ordinary_taxable |-> Max(Zero, Sub(taxable_income, preferential_income))]
        @@ l

\* Step 5: Calculate Taxable Income
step5_taxable_income(l, tax_input) ==
    LET preferential_income ==
            Add(tax_input.long_term_gains, tax_input.dividends_qualified)
        taxable_income == Max(Zero, Sub(l.agi, l.deductions))
    IN  [preferential_income |-> preferential_income,
         taxable_income |-> taxable_income,
         ordinary_taxable |-> Max(Zero, Sub(taxable_income, preferential_income))]
        @@ l

\* Step 6: Calculate Federal Tax.  ltcg_taxed is the width of the slices that
\* calculate_ltcg_tax taxed, which the program does not keep.
step6_federal_tax(l, tax_input) ==
    LET federal == calculate_federal_tax(l.ordinary_taxable, tax_input.filing_status)
        ltcg == ltcg_walk(tax_input.long_term_gains, tax_input.dividends_qualified,
                          l.taxable_income, tax_input.filing_status)
    IN  [federal_ordinary |-> federal.tax,
         marginal_rate |-> federal.marginal_rate,
         federal_ltcg |-> ltcg.tax,
         ltcg_taxed |-> ltcg.taxed,
         federal_total |-> Add(federal.tax, ltcg.tax)]
        @@ l

\* Step 7: Calculate NIIT
step7_niit(l, tax_input) ==
    LET investment_income ==
            Add(tax_input.interest,
            Add(tax_input.dividends_qualified,
            Add(tax_input.dividends_ordinary,
            Add(tax_input.short_term_gains,
            Add(tax_input.long_term_gains, Max(Zero, tax_input.rental_income))))))
    IN  [investment_income |-> investment_income,
         niit |-> calculate_niit(l.agi, investment_income, tax_input.filing_status)]
        @@ l

\* Step 8: Calculate State Tax
step8_state_tax(l, tax_input) ==
    [state_tax |-> calculate_state_tax(l.taxable_income, tax_input.state)] @@ l

\* A variant of step 9 that grants no education credit above an AGI of 200,000.
step9_education_phase_out(l, tax_input) ==
    LET child_credit ==
            calculate_child_tax_credit(tax_input.children_under_17,
                                       tax_input.children_17_plus,
                                       l.agi, tax_input.filing_status)
        education_credit ==
            IF Gt(l.agi, Dollars(200000)) THEN Zero
            ELSE Min(Mul(tax_input.education_expenses, 2000), Dollars(2000))
    IN  [child_credit |-> child_credit,
         education_credit |-> education_credit,
         total_credits |-> Add(child_credit, education_credit)]
        @@ l

\* Step 9: Calculate Credits
step9_credits(l, tax_input) ==
    LET child_credit ==
            calculate_child_tax_credit(tax_input.children_under_17,
                                       tax_input.children_17_plus,
                                       l.agi, tax_input.filing_status)
        education_credit == Min(Mul(tax_input.education_expenses, 2000), Dollars(2000))
    IN  [child_credit |-> child_credit,
         education_credit |-> education_credit,
         total_credits |-> Add(child_credit, education_credit)]
        @@ l

\* A variant of the effective rate that stays a fraction of the gross income.
effective_rate_fraction(tax_after_credits, gross_income) ==
    IF Gt(gross_income, Zero)
    THEN Divide(Times(tax_after_credits, 100), InCents(gross_income))
    ELSE Zero

\* (tax_after_credits / gross_income * 100) if gross_income > 0 else 0, for a
\* gross income of whole cents: the quotient of tax_after_credits * 10^4 by
\* the cents of the gross income.
effective_rate(tax_after_credits, gross_income) ==
    IF Gt(gross_income, Zero)
    THEN Divide(Times(tax_after_credits, Base), InCents(gross_income))
    ELSE Zero

\* A variant of step 10 that refunds the credits in excess of the tax.
step10_refund_credits(l, tax_input) ==
    LET total_tax == Add(l.federal_total, Add(l.se_tax, Add(l.niit, l.state_tax)))
        tax_after_credits == Sub(total_tax, l.total_credits)
    IN  [total_tax |-> total_tax,
         tax_after_credits |-> tax_after_credits,
         effective_rate |-> effective_rate(tax_after_credits, l.gross_income),
         quarterly_estimate |-> Mul(tax_after_credits, 2500)]
        @@ l

\* A variant of step 10 that leaves the NIIT out of the total.
step10_without_surtax(l, tax_input) ==
    LET total_tax == Add(l.federal_total, Add(l.se_tax, l.state_tax))
        tax_after_credits == Max(Zero, Sub(total_tax, l.total_credits))
    IN  [total_tax |-> total_tax,
         tax_after_credits |-> tax_after_credits,
         effective_rate |-> effective_rate(tax_after_credits, l.gross_income),
         quarterly_estimate |-> Mul(tax_after_credits, 2500)]
        @@ l

\* Step 10: Final Calculations
step10_final(l, tax_input) ==
    LET total_tax == Add(l.federal_total, Add(l.se_tax, Add(l.niit, l.state_tax)))
        tax_after_credits == Max(Zero, Sub(total_tax, l.total_credits))
    IN  [total_tax |-> total_tax,
         tax_after_credits |-> tax_after_credits,
         effective_rate |-> effective_rate(tax_after_credits, l.gross_income),
         quarterly_estimate |-> Mul(tax_after_credits, 2500)]
        @@ l

\* Steps 1 to 10 in the program's order: the values of the local variables
\* of calculate_taxes when it reaches its return statement.
calculate_taxes_locals(tax_input) ==
    CHOOSE l \in
        {step10_final(l9, tax_input) : l9 \in
        {step9_credits(l8, tax_input) : l8 \in
        {step8_state_tax(l7, tax_input) : l7 \in
        {step7_niit(l6, tax_input) : l6 \in
        {step6_federal_tax(l5, tax_input) : l5 \in
        {step5_taxable_income(l4, tax_input) : l4 \in
        {step4_deductions(l3, tax_input) : l3 \in
        {step3_agi(l2, tax_input) : l2 \in
        {step2_adjustments(l1, tax_input) : l1 \in
        {step1_gross_income(tax_input)}}}}}}}}}} : TRUE

\* The amounts among the local variables l that lie near a half-cent: the
\* return statement rounds each as the double that carries it falls.
HalfCents(l) ==
    {v \in {l.gross_income, l.adjustments, l.agi, l.deductions,
            l.taxable_income, l.federal_ordinary, l.federal_ltcg,
            l.federal_total, l.se_tax, l.se_deduction, l.state_tax,
            l.child_credit, l.education_credit, l.total_credits, l.total_tax,
            l.tax_after_credits, l.quarterly_estimate, l.niit,
            l.effective_rate} :
        NearHalfCent(v)}

\* A variant of the return statement whose breakdown reports the child credit
\* as the credits applied.
TaxResult_child_credit_applied(l, tax_input, up) ==
    LET r(v) == round2(v, v \in DOMAIN up /\ up[v])
    IN  [gross_income |-> r(l.gross_income),
         adjustments |-> r(l.adjustments),
         agi |-> r(l.agi),
         deductions |-> r(l.deductions),
         deduction_type |-> l.deduction_type,
         taxable_income |-> r(l.taxable_income),
         federal_tax_ordinary |-> r(l.federal_ordinary),
         federal_tax_ltcg |-> r(l.federal_ltcg),
         federal_tax_total |-> r(l.federal_total),
         effective_rate |-> r(l.effective_rate),
         marginal_rate |-> round1_percent(l.marginal_rate),
         se_tax |-> r(l.se_tax),
         se_deduction |-> r(l.se_deduction),
         state_tax |-> r(l.state_tax),
         state |-> tax_input.state,
         child_tax_credit |-> r(l.child_credit),
         education_credits |-> r(l.education_credit),
         total_credits |-> r(l.total_credits),
         total_tax |-> r(l.total_tax),
         tax_after_credits |-> r(l.tax_after_credits),
         quarterly_estimate |-> r(l.quarterly_estimate),
         breakdown |->
             [federal_ordinary |-> r(l.federal_ordinary),
              federal_ltcg |-> r(l.federal_ltcg),
              se_tax |-> r(l.se_tax),
              niit |-> r(l.niit),
              state_tax |-> r(l.state_tax),
              credits_applied |-> r(l.child_credit)]]

\* The return statement: the TaxResult built from the local variables l,
\* where up[v] tells the side on which the half-cent amount v falls.
TaxResult(l, tax_input, up) ==
    LET r(v) == round2(v, v \in DOMAIN up /\ up[v])
    IN  [gross_income |-> r(l.gross_income),
         adjustments |-> r(l.adjustments),
         agi |-> r(l.agi),
         deductions |-> r(l.deductions),
         deduction_type |-> l.deduction_type,
         taxable_income |-> r(l.taxable_income),
         federal_tax_ordinary |-> r(l.federal_ordinary),
         federal_tax_ltcg |-> r(l.federal_ltcg),
         federal_tax_total |-> r(l.federal_total),
         effective_rate |-> r(l.effective_rate),
         marginal_rate |-> round1_percent(l.marginal_rate),
         se_tax |-> r(l.se_tax),
         se_deduction |-> r(l.se_deduction),
         state_tax |-> r(l.state_tax),
         state |-> tax_input.state,
         child_tax_credit |-> r(l.child_credit),
         education_credits |-> r(l.education_credit),
         total_credits |-> r(l.total_credits),
         total_tax |-> r(l.total_tax),
         tax_after_credits |-> r(l.tax_after_credits),
         quarterly_estimate |-> r(l.quarterly_estimate),
         breakdown |->
             [federal_ordinary |-> r(l.federal_ordinary),
              federal_ltcg |-> r(l.federal_ltcg),
              se_tax |-> r(l.se_tax),
              niit |-> r(l.niit),
              state_tax |-> r(l.state_tax),
              credits_applied |-> r(l.total_credits)]]

\* ------------------------------------------------------------------------
\* One invocation, from the call to the return
\* ------------------------------------------------------------------------

\* The function call.fn has been called with the arguments in call.
Called(calls) ==
    /\ tables = TaxTables
    /\ earlier = << >>
    /\ peer = None
    /\ pc = "called"
    /\ call \in calls
    /\ ret = None
    /\ locals = None

Returned(fn) == pc = "returned" /\ call.fn = fn

\* ------------------------------------------------------------------------
\* The bracket evaluator invoked on its own
\* ------------------------------------------------------------------------

\* Amounts lie within Spread cents of a bracket bound, or on a grid.
Spread == 1

GridStep == 50000

GridMax == 16

\* The finite upper bounds of a bracket table
FiniteBounds(table) ==
    UNION {{table[s][i][1] : i \in 1..(Len(table[s]) - 1)} : s \in DOMAIN table}

Grid == {Dollars(GridStep * k) : k \in 0..GridMax}

Near(bounds) == {Add(b, Cents(d)) : b \in bounds, d \in (-Spread)..Spread}

FederalAmounts == Near(FiniteBounds(FEDERAL_BRACKETS)) \cup Grid \cup {Cents(1)}

FederalCalls ==
    [fn : {"calculate_federal_tax"},
     taxable_income : FederalAmounts,
     filing_status : FilingStatus]

InitFederal == Called(FederalCalls)

RunFederal ==
    /\ pc = "called"
    /\ call.fn = "calculate_federal_tax"
    /\ ret' = calculate_federal_tax(call.taxable_income, call.filing_status)
    /\ pc' = "returned"
    /\ UNCHANGED <<call, locals, tables, earlier, peer>>

NextFederal == RunFederal

SpecFederal == InitFederal /\ [][NextFederal]_vars

\* ------------------------------------------------------------------------
\* The preferential-rate stacking evaluator invoked on its own
\* ------------------------------------------------------------------------

\* The ends of the preferential stack: amounts near a preferential bracket
\* bound, every fourth grid amount and the 60,000 of the specification's
\* scenario B.  The stack's lower end may also lie below zero (gains that
\* exceed the taxable income).
LtcgAmounts ==
    Near(FiniteBounds(LTCG_BRACKETS))
        \cup {Dollars(GridStep * 4 * k) : k \in 0..(GridMax \div 4)}
        \cup {Dollars(60000)}

LtcgFloors == LtcgAmounts \cup {Dollars(-10000)}

\* The ways a preferential total is split into gains and qualified dividends:
\* the qualified dividends of each.
Splits(total) == {Zero, total, Min(total, Dollars(1000))}

LtcgCall(floor, top, q, s) ==
    [fn |-> "calculate_ltcg_tax",
     ltcg |-> Sub(Sub(top, floor), q),
     qualified_dividends |-> q,
     taxable_income |-> top,
     filing_status |-> s]

LtcgCalls ==
    UNION {{LtcgCall(st[1], st[2], q, s) :
                q \in Splits(Sub(st[2], st[1])), s \in FilingStatus} :
           st \in {x \in LtcgFloors \X LtcgAmounts : Leq(x[1], x[2])}}

InitLtcg == Called(LtcgCalls)

RunLtcg ==
    /\ pc = "called"
    /\ call.fn = "calculate_ltcg_tax"
    /\ ret' = ltcg_walk(call.ltcg, call.qualified_dividends,
                        call.taxable_income, call.filing_status)
    /\ pc' = "returned"
    /\ UNCHANGED <<call, locals, tables, earlier, peer>>

NextLtcg == RunLtcg

SpecLtcg == InitLtcg /\ [][NextLtcg]_vars

\* ------------------------------------------------------------------------
\* calculate_taxes invoked on a TaxInput
\* ------------------------------------------------------------------------

\* Wages, long-term gains and qualified dividends in every mix, in four
\* states: gains below, across and above the preferential bounds, also gains
\* that exceed what the deductions leave taxable.
IncomeInputs ==
    {[TaxInputDefault EXCEPT !.wages = w, !.long_term_gains = g,
                             !.dividends_qualified = q,
                             !.filing_status = s, !.state = st] :
        w \in {Zero, Dollars(30000), Dollars(100000), Dollars(500000)},
        g \in {Zero, Dollars(20000), Dollars(60000), Dollars(74600), Dollars(600000)},
        q \in {Zero, Dollars(5000)},
        s \in FilingStatus,
        st \in {<<"C", "A">>, <<"T", "X">>, <<"n", "y">>, <<"Z", "Z">>}}

\* Self-employment: a loss, nothing, a cent, the 100,000 of the
\* specification's scenario C, and profits whose 92.35% lies within a cent of
\* the Social Security wage base and of the 200,000 additional-Medicare line.
SelfEmploymentInputs ==
    {[TaxInputDefault EXCEPT !.self_employment = p, !.wages = w,
                             !.filing_status = s] :
        p \in {Dollars(-5000), Zero, Cents(1), Dollars(100000), Dollars(250000)}
              \cup {Add(Cents(18256632), Cents(d)) : d \in 0..Spread}
              \cup {Add(Cents(21656740), Cents(d)) : d \in 0..Spread},
        w \in {Zero, Dollars(50000)},
        s \in {SINGLE, MARRIED_JOINT}}

\* Investment income of each kind on wages at and below the NIIT thresholds.
InvestmentInputs ==
    {[m EXCEPT !.wages = w, !.interest = i, !.filing_status = s] :
        m \in {TaxInputDefault,
               [TaxInputDefault EXCEPT !.dividends_qualified = Dollars(300)],
               [TaxInputDefault EXCEPT !.dividends_ordinary = Dollars(500)],
               [TaxInputDefault EXCEPT !.short_term_gains = Dollars(1000)],
               [TaxInputDefault EXCEPT !.long_term_gains = Dollars(7000)],
               [TaxInputDefault EXCEPT !.rental_income = Dollars(10000)],
               [TaxInputDefault EXCEPT !.rental_income = Dollars(-10000)]},
        w \in {Dollars(124000), Dollars(125000), Dollars(199000),
               Dollars(200000), Dollars(249000), Dollars(250000)},
        i \in {Zero, Dollars(1000), Dollars(50000)},
        s \in FilingStatus}

\* The standard amounts there are: a table value with no, one or two add-ons.
StandardAmounts ==
    {Add(STANDARD_DEDUCTION[s], Times(a, n)) :
        s \in FilingStatus,
        a \in {ADDITIONAL_DEDUCTION[t] : t \in DOMAIN ADDITIONAL_DEDUCTION},
        n \in 0..2}

\* Itemizable amounts within Spread cents of a standard amount, with and
\* without medical expenses and an IRA contribution above the wages.
DeductionInputs ==
    {[TaxInputDefault EXCEPT !.mortgage_interest = m, !.wages = w,
                             !.traditional_ira = am[1], !.medical = am[2],
                             !.age_65_plus = f[1], !.spouse_age_65_plus = f[2],
                             !.filing_status = s] :
        m \in Near(StandardAmounts) \cup {Zero},
        w \in {Dollars(50000)},
        am \in {<<Zero, Zero>>, <<Dollars(60000), Zero>>, <<Zero, Dollars(20000)>>},
        f \in BOOLEAN \X BOOLEAN,
        s \in FilingStatus}

\* Dependents and education expenses on wages around the phase-out
\* thresholds, also credits larger than the tax.
CreditInputs ==
    {[TaxInputDefault EXCEPT !.children_under_17 = c, !.children_17_plus = o,
                             !.education_expenses = e, !.wages = w,
                             !.filing_status = s] :
        c \in {0, 2}, o \in {0, 1},
        e \in {Zero, Dollars(5000), Dollars(10000), Dollars(20000)},
        w \in {Dollars(20000), Dollars(200000), Cents(20099999), Dollars(201000),
               Dollars(250000), Dollars(400000), Dollars(450000)},
        s \in FilingStatus}

\* Itemizable amounts of every kind: state and local taxes below, within
\* Spread cents of and far above the cap, medical expenses below and above
\* 7.5% of an AGI that an IRA contribution has lowered.
ItemizedInputs ==
    {[TaxInputDefault EXCEPT !.property_tax = pt, !.state_tax_paid = sp,
                             !.charitable = c, !.medical = md,
                             !.mortgage_interest = mi, !.wages = w,
                             !.traditional_ira = ira, !.filing_status = s] :
        pt \in {Zero, Dollars(6000), Dollars(25000)},
        sp \in Near({Dollars(4000)}) \cup {Zero},
        c \in {Zero, Dollars(3000)},
        md \in {Zero, Dollars(5000), Dollars(20000)},
        mi \in {Zero, Dollars(12000)},
        w \in {Dollars(50000), Dollars(200000)},
        ira \in {Zero, Dollars(7000)},
        s \in {SINGLE, MARRIED_JOINT}}

\* The income fields and the contributions the other families leave at
\* zero: partnership income and losses, other income, HSA, IRA and pre-tax
\* 401(k) contributions, on a self-employment profit, with and without
\* children; among them inputs whose adjustments exceed their income.
AdjustmentInputs ==
    {[TaxInputDefault EXCEPT !.self_employment = p, !.k1_income = k,
                             !.other_income = o, !.interest = i,
                             !.wages = w, !.hsa = h,
                             !.traditional_ira = ira,
                             !.traditional_401k = r,
                             !.children_under_17 = c,
                             !.filing_status = s] :
        p \in {Zero, Dollars(30000)},
        k \in {Zero, Dollars(5000), Dollars(-40000)},
        o \in {Zero, Dollars(1200)},
        i \in {Zero, Cents(25050)},
        w \in {Zero, Dollars(40000)},
        h \in {Zero, Dollars(4150)},
        ira \in {Zero, Dollars(7000)},
        r \in {Zero, Dollars(23000)},
        c \in {0, 2},
        s \in {SINGLE, MARRIED_JOINT}}

\* str.lower() of a code of the table
LowerChar(c) == Lowercase[CHOOSE i \in DOMAIN Uppercase : Uppercase[i] = c]

\* Every state code of the table in capitals, in small letters and in a mix
\* of the two, and codes the table does not hold, the empty one among them;
\* with and without preferential income.
StateCodes ==
    DOMAIN STATE_TAX_RATES
        \cup {<<LowerChar(c[1]), LowerChar(c[2])>> : c \in DOMAIN STATE_TAX_RATES}
        \cup {<<c[1], LowerChar(c[2])>> : c \in DOMAIN STATE_TAX_RATES}
        \cup {<<"Z", "Z">>, <<"z", "z">>, <<"P", "R">>, <<"C">>, << >>}

StateInputs ==
    {[TaxInputDefault EXCEPT !.state = st, !.wages = Dollars(100000),
                             !.long_term_gains = g] :
        st \in StateCodes, g \in {Zero, Dollars(20000)}}

\* Inputs around a gross income of zero: self-employment income with a
\* rental loss that is smaller, equal or larger, and the input with all
\* amounts zero.
RateInputs ==
    {[TaxInputDefault EXCEPT !.self_employment = Dollars(se),
                             !.rental_income = Dollars(r),
                             !.wages = Cents(w)] :
        se \in {0, 50000}, r \in {0, -49999, -50000, -100000},
        w \in {0, 1234567}}

\* Inputs whose intermediate amounts have fractions of a cent: half of the
\* self-employment tax in the AGI, 7.5% of the AGI in the medical part of
\* the itemized deduction, a fifth of the education expenses in the credits.
RoundingInputs ==
    {[TaxInputDefault EXCEPT !.self_employment = Dollars(se),
                             !.wages = Cents(w),
                             !.medical = Dollars(m),
                             !.education_expenses = Cents(e),
                             !.children_under_17 = c] :
        se \in {0, 30001}, w \in {0, 1234567}, m \in {0, 20000},
        e \in {0, 100003, 100001}, c \in {0, 1}}

\* Inputs whose result has every component of the breakdown: wages,
\* self-employment and investment income above the NIIT threshold, with
\* children and education expenses.
BreakdownInputs ==
    {[TaxInputDefault EXCEPT !.wages = Dollars(180000),
                             !.interest = Dollars(30000),
                             !.long_term_gains = Dollars(g),
                             !.self_employment = Dollars(se),
                             !.children_under_17 = 2,
                             !.education_expenses = Dollars(3000),
                             !.filing_status = s] :
        g \in {0, 20000}, se \in {0, 30000}, s \in FilingStatus}

\* Inputs with medical expenses and an AGI on either side of zero: the IRA
\* and HSA contributions exceed the wages or not.
MedicalInputs ==
    {[TaxInputDefault EXCEPT !.wages = Dollars(w),
                             !.medical = Dollars(m),
                             !.traditional_ira = Dollars(i),
                             !.hsa = Dollars(h)] :
        w \in {0, 5000, 50000}, m \in {0, 1000, 14000}, i \in {0, 7000},
        h \in {0, 4150}}

\* Inputs whose preferential income begins where the 0% preferential
\* bracket of a table ends (47,025 or 94,050 above a standard deduction), or
\* far above it.
PreferentialInputs ==
    {[TaxInputDefault EXCEPT !.wages = Dollars(w),
                             !.long_term_gains = Dollars(g),
                             !.filing_status = s] :
        w \in {61625, 68925, 76225, 123250, 200000},
        g \in {0, 125, 250, 16075, 600000},
        s \in FilingStatus}

\* Inputs with a net long-term loss, alone or against qualified dividends
LossInputs ==
    {[TaxInputDefault EXCEPT !.wages = Dollars(w),
                             !.long_term_gains = Dollars(g),
                             !.dividends_qualified = Dollars(q),
                             !.filing_status = s] :
        w \in {20000, 100000}, g \in {-20000, -3000}, q \in {0, 5000},
        s \in {SINGLE, MARRIED_JOINT}}

TaxInputs ==
    LossInputs \cup PreferentialInputs \cup MedicalInputs \cup BreakdownInputs \cup RoundingInputs \cup RateInputs \cup StateInputs \cup IncomeInputs \cup SelfEmploymentInputs \cup InvestmentInputs
        \cup DeductionInputs \cup CreditInputs \cup ItemizedInputs
        \cup AdjustmentInputs

TaxCalls == [fn : {"calculate_taxes"}, tax_input : TaxInputs]

InitTaxes == Called(TaxCalls)

\* A variant in which step 4 adds the age add-on to the table's entry in
\* place, where the program adds it to the local variable standard.
globals_after_step_in_place(l, tax_input) ==
    IF "standard" \in DOMAIN l /\ "taxable_income" \notin DOMAIN l
    THEN [tables EXCEPT !.STANDARD_DEDUCTION[tax_input.filing_status] = l.standard]
    ELSE tables

\* The module's globals after a step of calculate_taxes that leaves the local
\* variables l: the function has no global statement and assigns to no item
\* or attribute of a table or of its argument, so they are what they were.
globals_after_step(l, tax_input) == tables

\* calculate_taxes is at the step named by pc and runs it: locals gains the
\* variables the step sets, and control passes to the step named by next.
TaxesStep(at, next, l) ==
    /\ call.fn = "calculate_taxes"
    /\ pc = at
    /\ locals' = l
    /\ tables' = globals_after_step(l, call.tax_input)
    /\ pc' = next
    /\ UNCHANGED <<call, ret, earlier, peer>>

Step1 == TaxesStep("called", "step2", step1_gross_income(call.tax_input))

Step2 == TaxesStep("step2", "step3", step2_adjustments(locals, call.tax_input))

Step3 == TaxesStep("step3", "step4", step3_agi(locals, call.tax_input))

Step4 == TaxesStep("step4", "step5", step4_deductions(locals, call.tax_input))

Step5 == TaxesStep("step5", "step6", step5_taxable_income(locals, call.tax_input))

Step6 == TaxesStep("step6", "step7", step6_federal_tax(locals, call.tax_input))

Step7 == TaxesStep("step7", "step8", step7_niit(locals, call.tax_input))

Step8 == TaxesStep("step8", "step9", step8_state_tax(locals, call.tax_input))

Step9 == TaxesStep("step9", "step10", step9_credits(locals, call.tax_input))

Step10 == TaxesStep("step10", "return", step10_final(locals, call.tax_input))

\* The return statement.
ReturnTaxes ==
    /\ call.fn = "calculate_taxes"
    /\ pc = "return"
    /\ \E up \in [HalfCents(locals) -> BOOLEAN] :
         ret' = TaxResult(locals, call.tax_input, up)
    /\ pc' = "returned"
    /\ UNCHANGED <<call, locals, tables, earlier, peer>>

NextTaxes ==
    \/ Step1
    \/ Step2
    \/ Step3
    \/ Step4
    \/ Step5
    \/ Step6
    \/ Step7
    \/ Step8
    \/ Step9
    \/ Step10
    \/ ReturnTaxes

SpecTaxes == InitTaxes /\ [][NextTaxes]_vars

\* ------------------------------------------------------------------------
\* calculate_taxes invoked on inputs around its thresholds
\* ------------------------------------------------------------------------

\* Non-negative inputs with wages at a bracket bound (61,750 less the single
\* standard deduction is 47,150), just below the NIIT thresholds and the
\* child-credit thresholds, with and without investment income, medical
\* expenses that make the deduction switch, and children.
RaiseInputs ==
    {[TaxInputDefault EXCEPT !.wages = Dollars(w),
                             !.interest = Dollars(i),
                             !.long_term_gains = Dollars(g),
                             !.medical = Dollars(m),
                             !.children_under_17 = c,
                             !.filing_status = s] :
        w \in {0, 61750, 150000, 199500, 249500, 399500},
        i \in {0, 30000}, g \in {0, 50000}, m \in {0, 20000}, c \in {0, 2},
        s \in {SINGLE, MARRIED_JOINT, HEAD_HOUSEHOLD}}

InitRaise == Called([fn : {"calculate_taxes"}, tax_input : RaiseInputs])

SpecRaise == InitRaise /\ [][NextTaxes]_vars

\* ------------------------------------------------------------------------
\* calculate_taxes invoked again and again in one process
\* ------------------------------------------------------------------------

\* The number of invocations in a session
MaxInvocations == 3

\* Inputs of a session: wages alone, self-employment income whose tax is a
\* half-cent amount, a taxpayer of 65 and a couple with a spouse of 65.
SessionInputs ==
    {[TaxInputDefault EXCEPT !.wages = Dollars(100000)],
     [TaxInputDefault EXCEPT !.self_employment = Dollars(30000)],
     [TaxInputDefault EXCEPT !.wages = Dollars(50000), !.age_65_plus = TRUE],
     [TaxInputDefault EXCEPT !.wages = Dollars(120000),
                             !.filing_status = MARRIED_JOINT,
                             !.spouse_age_65_plus = TRUE,
                             !.state = <<"n", "y">>]}

InitSession == Called([fn : {"calculate_taxes"}, tax_input : SessionInputs])

\* The return statement in a session.  The double that carries an amount is
\* determined by the computation that produced it, so an amount that an
\* earlier invocation on the same input rounded falls on the same side now.
ReturnSession ==
    /\ call.fn = "calculate_taxes"
    /\ pc = "return"
    /\ \E up \in [HalfCents(locals) -> BOOLEAN] :
         /\ \A i \in DOMAIN earlier :
                earlier[i].tax_input = call.tax_input =>
                    \A v \in DOMAIN up \cap DOMAIN earlier[i].up :
                        up[v] = earlier[i].up[v]
         /\ ret' = TaxResult(locals, call.tax_input, up)
         /\ earlier' = Append(earlier,
                              [tax_input |-> call.tax_input, up |-> up,
                               result |-> TaxResult(locals, call.tax_input, up)])
    /\ pc' = "returned"
    /\ UNCHANGED <<call, locals, tables, peer>>

\* The caller invokes calculate_taxes once more: a new frame, whose local
\* variables are unset.
InvokeAgain ==
    /\ call.fn = "calculate_taxes"
    /\ pc = "returned"
    /\ Len(earlier) < MaxInvocations
    /\ \E t \in SessionInputs : call' = [fn |-> "calculate_taxes", tax_input |-> t]
    /\ pc' = "called"
    /\ ret' = None
    /\ locals' = None
    /\ UNCHANGED <<tables, earlier, peer>>

NextSession ==
    \/ Step1
    \/ Step2
    \/ Step3
    \/ Step4
    \/ Step5
    \/ Step6
    \/ Step7
    \/ Step8
    \/ Step9
    \/ Step10
    \/ ReturnSession
    \/ InvokeAgain

SpecSession == InitSession /\ [][NextSession]_vars

\* ------------------------------------------------------------------------
\* Two invocations of calculate_taxes that run concurrently
\* ------------------------------------------------------------------------

\* Both invocations have been called, each with its own TaxInput and its
\* own frame; every interleaving of their steps is a behaviour.  A step of
\* the model is a group of statements that reads and writes one frame and
\* reads the tables, so a finer interleaving gives no other outcome.
InitConcurrent ==
    /\ tables = TaxTables
    /\ earlier = << >>
    /\ pc = "called"
    /\ call \in [fn : {"calculate_taxes"}, tax_input : SessionInputs]
    /\ ret = None
    /\ locals = None
    /\ peer \in [pc : {"called"},
                 call : [fn : {"calculate_taxes"}, tax_input : SessionInputs],
                 ret : {None},
                 locals : {None}]

\* The local variables after the step that an invocation at at runs next
step_at(at, l, tax_input) ==
    CASE at = "called" -> step1_gross_income(tax_input)
      [] at = "step2" -> step2_adjustments(l, tax_input)
      [] at = "step3" -> step3_agi(l, tax_input)
      [] at = "step4" -> step4_deductions(l, tax_input)
      [] at = "step5" -> step5_taxable_income(l, tax_input)
      [] at = "step6" -> step6_federal_tax(l, tax_input)
      [] at = "step7" -> step7_niit(l, tax_input)
      [] at = "step8" -> step8_state_tax(l, tax_input)
      [] at = "step9" -> step9_credits(l, tax_input)
      [] at = "step10" -> step10_final(l, tax_input)

\* The step that follows
next_step(at) ==
    CASE at = "called" -> "step2"
      [] at = "step2" -> "step3"
      [] at = "step3" -> "step4"
      [] at = "step4" -> "step5"
      [] at = "step5" -> "step6"
      [] at = "step6" -> "step7"
      [] at = "step7" -> "step8"
      [] at = "step8" -> "step9"
      [] at = "step9" -> "step10"
      [] at = "step10" -> "return"

\* The second invocation runs its next step
PeerStep ==
    /\ peer # None
    /\ peer.pc \notin {"return", "returned"}
    /\ peer' = [peer EXCEPT
                   !.pc = next_step(peer.pc),
                   !.locals = step_at(peer.pc, peer.locals, peer.call.tax_input)]
    /\ tables' = globals_after_step(
                     step_at(peer.pc, peer.locals, peer.call.tax_input),
                     peer.call.tax_input)
    /\ UNCHANGED <<pc, call, ret, locals, earlier>>

\* The second invocation returns
PeerReturn ==
    /\ peer # None
    /\ peer.pc = "return"
    /\ \E up \in [HalfCents(peer.locals) -> BOOLEAN] :
         peer' = [peer EXCEPT
                     !.pc = "returned",
                     !.ret = TaxResult(peer.locals, peer.call.tax_input, up)]
    /\ UNCHANGED <<pc, call, ret, locals, tables, earlier>>

NextConcurrent ==
    \/ Step1
    \/ Step2
    \/ Step3
    \/ Step4
    \/ Step5
    \/ Step6
    \/ Step7
    \/ Step8
    \/ Step9
    \/ Step10
    \/ ReturnTaxes
    \/ PeerStep
    \/ PeerReturn

SpecConcurrent == InitConcurrent /\ [][NextConcurrent]_vars

\* ------------------------------------------------------------------------
\* The module is imported, and then a bracket evaluator is invoked
\* ------------------------------------------------------------------------

\* The table sets a maintainer may have written into the module ("Update
\* these annually"): the 2024 tables, and the same with the bracket list of
\* one filing status left empty.
WrittenTables ==
    {TaxTables}
    \cup {[TaxTables EXCEPT !.FEDERAL_BRACKETS[s] = << >>] :
              s \in DOMAIN FEDERAL_BRACKETS_2024}
    \cup {[TaxTables EXCEPT !.LTCG_BRACKETS[s] = << >>] :
              s \in DOMAIN LTCG_BRACKETS_2024}

\* The amounts the evaluators are invoked with after the import
LoadedAmounts == {Zero, Dollars(50000), Dollars(100000), Dollars(600000)}

InitLoad ==
    /\ pc = "import"
    /\ call \in [fn : {"import"}, source : WrittenTables]
    /\ tables = None
    /\ ret = None
    /\ locals = None
    /\ earlier = << >>
    /\ peer = None

\* The import runs the assignments of the module's text.  No statement of
\* the module inspects the tables, so whatever was written is bound.
LoadTables ==
    /\ pc = "import"
    /\ tables' = call.source
    /\ pc' = "loaded"
    /\ UNCHANGED <<call, ret, locals, earlier, peer>>

CallFederal ==
    /\ pc = "loaded"
    /\ call' \in [fn : {"calculate_federal_tax"},
                  taxable_income : LoadedAmounts,
                  filing_status : FilingStatus]
    /\ pc' = "called"
    /\ UNCHANGED <<ret, locals, tables, earlier, peer>>

CallLtcg ==
    /\ pc = "loaded"
    /\ call' \in [fn : {"calculate_ltcg_tax"},
                  ltcg : LoadedAmounts \ {Zero},
                  qualified_dividends : {Zero},
                  taxable_income : {Dollars(600000)},
                  filing_status : FilingStatus]
    /\ pc' = "called"
    /\ UNCHANGED <<ret, locals, tables, earlier, peer>>

NextLoad ==
    \/ LoadTables
    \/ CallFederal
    \/ CallLtcg
    \/ RunFederal
    \/ RunLtcg

SpecLoad == InitLoad /\ [][NextLoad]_vars

\* ------------------------------------------------------------------------
\* calculate_child_tax_credit invoked on its own
\* ------------------------------------------------------------------------

\* The two phase-out thresholds
CreditThresholds == {Dollars(200000), Dollars(400000)}

\* AGIs within Spread cents of a threshold and of whole multiples of 1,000
\* above it - the first ones, and those around 80,000, where the reduction
\* reaches the credit for two children -, 50,000 above it, nothing, and a
\* loss.
CreditAgis ==
    Near({Add(t, Dollars(1000 * k)) : t \in CreditThresholds,
                                      k \in {0, 1, 2, 79, 80, 81}})
        \cup {Add(t, Dollars(50000)) : t \in CreditThresholds}
        \cup {Zero, Dollars(-10000)}

CreditCalls ==
    [fn : {"calculate_child_tax_credit"},
     children_under_17 : 0..2, children_17_plus : 0..2,
     agi : CreditAgis, filing_status : FilingStatus]

InitCredit == Called(CreditCalls)

RunCredit ==
    /\ pc = "called"
    /\ call.fn = "calculate_child_tax_credit"
    /\ ret' = calculate_child_tax_credit(call.children_under_17,
                                         call.children_17_plus,
                                         call.agi, call.filing_status)
    /\ pc' = "returned"
    /\ UNCHANGED <<call, locals, tables, earlier, peer>>

NextCredit == RunCredit

SpecCredit == InitCredit /\ [][NextCredit]_vars

\* ------------------------------------------------------------------------
\* Properties of the bracket evaluator
\* ------------------------------------------------------------------------

\* The brackets of a filing status: its own table, or the single table when
\* the status has none.
StatusBrackets(table, s) == IF s \in DOMAIN table THEN table[s] ELSE table[SINGLE]

\* The lower bound of bracket i: the bound of the bracket before it.
LowerBound(brackets, i) == IF i = 1 THEN Zero ELSE brackets[i - 1][1]

\* The length of the part of [lo, hi] that lies in bracket i.
Part(brackets, i, lo, hi) ==
    LET from == Max(lo, LowerBound(brackets, i))
        to == MinBound(hi, brackets[i][1])
    IN  IF Lt(from, to) THEN Sub(to, from) ELSE Zero

\* The sum over brackets i.. of rate x (part of [lo, hi] in the bracket).
RECURSIVE ProgressiveSum(_, _, _, _)
ProgressiveSum(brackets, i, lo, hi) ==
    IF i > Len(brackets) THEN Zero
    ELSE Add(Mul(Part(brackets, i, lo, hi), brackets[i][2]),
             ProgressiveSum(brackets, i + 1, lo, hi))

HighestRate(brackets) ==
    CHOOSE r \in {brackets[i][2] : i \in 1..Len(brackets)} :
        \A i \in 1..Len(brackets) : brackets[i][2] <= r

\* C2: calculate_federal_tax returns, for every amount >= 0 and every filing
\* status, the sum over the status's brackets of rate x (length of the part
\* of [0, amount] in the bracket); a single filer with 50,000 owes 6,053.
C2_ProgressiveTax ==
    Returned("calculate_federal_tax") =>
        /\ ret.tax = ProgressiveSum(StatusBrackets(FEDERAL_BRACKETS, call.filing_status),
                                    1, Zero, call.taxable_income)
        /\ (call.filing_status = SINGLE /\ call.taxable_income = Dollars(50000))
               => ret.tax = Dollars(6053)

\* A single filer's 50,000 has been taxed in three brackets: 6,053.
C2_Witness ==
    /\ Returned("calculate_federal_tax")
    /\ call.filing_status = SINGLE
    /\ call.taxable_income = Dollars(50000)
    /\ ret.tax = Add(Add(Mul(Dollars(11600), 1000), Mul(Dollars(35550), 1200)),
                     Mul(Dollars(2850), 2200))
    /\ ret.tax = Dollars(6053)

\* C3: for every filing status and all amounts a1 < a2, tax(0) = 0 and
\* 0 <= tax(a2) - tax(a1) <= (highest bracket rate) x (a2 - a1): the tax
\* never decreases and does not jump at a bracket bound.
C3_MonotoneNoJump ==
    Returned("calculate_federal_tax") =>
        LET a2 == call.taxable_income
            s == call.filing_status
            top == HighestRate(StatusBrackets(FEDERAL_BRACKETS, s))
        IN  /\ a2 = Zero => ret.tax = Zero
            /\ \A a1 \in FederalAmounts :
                   Lt(a1, a2) =>
                       LET d == Sub(ret.tax, calculate_federal_tax(a1, s).tax)
                       IN  Leq(Zero, d) /\ Leq(d, Mul(Sub(a2, a1), top))

\* One cent above the single filer's first bound costs 0.12 cent more than
\* the bound itself.
C3_Witness ==
    /\ Returned("calculate_federal_tax")
    /\ call.filing_status = SINGLE
    /\ call.taxable_income = Add(Dollars(11600), Cents(1))
    /\ Sub(ret.tax, calculate_federal_tax(Dollars(11600), SINGLE).tax)
           = Mul(Cents(1), 1200)

\* The rate of the last bracket holding a part of [0, amount] of positive
\* length; the first bracket's rate when there is none.
LastPositiveRate(brackets, amount) ==
    LET pos == {i \in 1..Len(brackets) : Part(brackets, i, Zero, amount) # Zero}
    IN  IF pos = {} THEN brackets[1][2]
        ELSE brackets[CHOOSE i \in pos : \A j \in pos : j <= i][2]

\* C4: the marginal rate returned is the rate of the last bracket that
\* contributed a positive slice; the first bracket's rate of the status's
\* table when the amount is 0; and the lower bracket's rate when the amount
\* is exactly a bracket's upper bound.
C4_MarginalRate ==
    Returned("calculate_federal_tax") =>
        LET b == StatusBrackets(FEDERAL_BRACKETS, call.filing_status)
            a == call.taxable_income
        IN  /\ ret.marginal_rate = LastPositiveRate(b, a)
            /\ a = Zero => ret.marginal_rate = b[1][2]
            /\ \A i \in 1..(Len(b) - 1) :
                   a = b[i][1] => ret.marginal_rate = b[i][2]

\* A head of household with exactly 63,100, the second bracket's bound, has
\* the second bracket's rate.
C4_Witness ==
    /\ Returned("calculate_federal_tax")
    /\ call.filing_status = HEAD_HOUSEHOLD
    /\ call.taxable_income = Dollars(63100)
    /\ ret.marginal_rate = 1200

\* ------------------------------------------------------------------------
\* Properties of the preferential-rate stacking evaluator
\* ------------------------------------------------------------------------

\* C5: for every filing status, taxable_income >= 0 and ltcg,
\* qualified_dividends >= 0 with pref_total = ltcg + qualified_dividends <=
\* taxable_income, calculate_ltcg_tax returns the sum over the preferential
\* brackets of rate x (width of the overlap of [taxable_income - pref_total,
\* taxable_income] with the bracket); it returns 0 without walking the
\* brackets when pref_total <= 0; a single filer's 60,000 of long-term gain
\* alone owes 1,946.25.
C5_StackedTax ==
    Returned("calculate_ltcg_tax") =>
        LET pref_total == Add(call.ltcg, call.qualified_dividends)
            floor == Sub(call.taxable_income, pref_total)
            b == StatusBrackets(LTCG_BRACKETS, call.filing_status)
        IN  /\ (/\ Geq(call.ltcg, Zero)
                /\ Geq(call.qualified_dividends, Zero)
                /\ Geq(floor, Zero))
               => ret.tax = ProgressiveSum(b, 1, floor, call.taxable_income)
            /\ Leq(pref_total, Zero) => (ret.tax = Zero /\ ret.walked = 0)
            /\ (/\ call.filing_status = SINGLE
                /\ call.taxable_income = Dollars(60000)
                /\ call.ltcg = Dollars(60000)
                /\ call.qualified_dividends = Zero)
               => ret.tax = Cents(194625)

\* A single filer's stack from 0 to 60,000 has straddled the 47,025 bound:
\* two brackets looked at, 1,946.25 owed.
C5_Witness ==
    /\ Returned("calculate_ltcg_tax")
    /\ call.filing_status = SINGLE
    /\ call.taxable_income = Dollars(60000)
    /\ call.ltcg = Dollars(60000)
    /\ call.qualified_dividends = Zero
    /\ ret.walked = 2
    /\ ret.tax = Mul(Dollars(12975), 1500)
    /\ ret.tax = Cents(194625)

\* C6: with the ordinary income floor held fixed, the preferential tax as a
\* function of the preferential amount p (taxable_income = floor + p)
\* satisfies 0 <= tax(p + d) - tax(p) <= (highest preferential rate) x d for
\* all p >= 0 and d > 0: no jump at a bracket bound.
C6_StackingContinuity ==
    Returned("calculate_ltcg_tax") =>
        LET p == Add(call.ltcg, call.qualified_dividends)
            floor == Sub(call.taxable_income, p)
            s == call.filing_status
            top == HighestRate(StatusBrackets(LTCG_BRACKETS, s))
        IN  Geq(floor, Zero) =>
                \A t \in LtcgAmounts :
                    Lt(call.taxable_income, t) =>
                        LET p2 == Sub(t, floor)
                            d == Sub(p2, p)
                            more == Sub(calculate_ltcg_tax(p2, Zero, t, s), ret.tax)
                        IN  Leq(Zero, more) /\ Leq(more, Mul(d, top))

\* A married couple's stack on a floor of 60,000 has reached one cent above
\* the 94,050 bound: that cent is taxed at 15%, and everything below at 0%.
C6_Witness ==
    /\ Returned("calculate_ltcg_tax")
    /\ call.filing_status = MARRIED_JOINT
    /\ call.taxable_income = Add(Dollars(94050), Cents(1))
    /\ Sub(call.taxable_income, Add(call.ltcg, call.qualified_dividends))
           = Dollars(60000)
    /\ ret.tax = Mul(Cents(1), 1500)
    /\ calculate_ltcg_tax(Dollars(34050), Zero, Dollars(94050), MARRIED_JOINT) = Zero

\* ------------------------------------------------------------------------
\* Properties of calculate_taxes
\* ------------------------------------------------------------------------

\* calculate_taxes has set its local variable named field.
TaxesHasSet(field) == call.fn = "calculate_taxes" /\ field \in DOMAIN locals

\* The amounts of a TaxInput
AmountFields ==
    {"wages", "self_employment", "interest", "dividends_qualified",
     "dividends_ordinary", "short_term_gains", "long_term_gains",
     "rental_income", "k1_income", "other_income", "mortgage_interest",
     "property_tax", "state_tax_paid", "charitable", "medical",
     "traditional_401k", "traditional_ira", "hsa", "education_expenses"}

NonNegativeAmounts(tax_input) == \A f \in AmountFields : Geq(tax_input[f], Zero)

\* C1: for every TaxInput, also one whose adjustments or deductions exceed
\* its gross income or whose credits exceed its total tax, the TaxResult
\* that calculate_taxes returns has taxable_income >= 0 and
\* tax_after_credits >= 0.
C1_NonNegativeResult ==
    Returned("calculate_taxes") =>
        /\ Geq(ret.taxable_income, Zero)
        /\ Geq(ret.tax_after_credits, Zero)

\* A result for an input whose deductions exceed its AGI and whose credits
\* exceed its total tax: both amounts are reported as zero.
C1_Witness ==
    /\ Returned("calculate_taxes")
    /\ Lt(locals.agi, locals.deductions)
    /\ Gt(locals.total_credits, locals.total_tax)
    /\ ret.taxable_income = Zero
    /\ ret.tax_after_credits = Zero

\* C7: for every input with non-negative amounts, also one whose long-term
\* gains plus qualified dividends exceed its taxable income, the total width
\* of the slices that calculate_ltcg_tax taxes plus ordinary_taxable equals
\* taxable_income, so the preferential income taxed never exceeds it.
C7_StackWithinTaxableIncome ==
    (TaxesHasSet("ltcg_taxed") /\ NonNegativeAmounts(call.tax_input)) =>
        /\ Add(locals.ltcg_taxed, locals.ordinary_taxable) = locals.taxable_income
        /\ Leq(locals.ltcg_taxed, locals.taxable_income)

\* The deductions have eaten into the gains: the preferential income exceeds
\* a positive taxable income, all of which - and no more - is taxed as
\* preferential.
C7_Witness ==
    /\ TaxesHasSet("ltcg_taxed")
    /\ NonNegativeAmounts(call.tax_input)
    /\ Gt(locals.taxable_income, Zero)
    /\ Gt(locals.preferential_income, locals.taxable_income)
    /\ locals.ordinary_taxable = Zero
    /\ locals.ltcg_taxed = locals.taxable_income

\* The self-employment tax of the specification on a profit: 12.4% of the
\* net earnings up to the wage base of 168,600, 2.9% of all of them, and
\* 0.9% of what exceeds 200,000, the net earnings being 92.35% of the profit.
SeTaxSpecified(profit) ==
    LET net_se == Mul(profit, 9235)
        base == Add(Mul(Min(net_se, Dollars(168600)), 1240), Mul(net_se, 290))
    IN  IF Gt(net_se, Dollars(200000))
        THEN Add(base, Mul(Sub(net_se, Dollars(200000)), 90))
        ELSE base

\* The part of C8 on what calculate_se_tax returns: (0, 0) for a profit <= 0,
\* and otherwise the tax specified and half of it.
SeTaxAsSpecified ==
    TaxesHasSet("se_tax") =>
        LET profit == call.tax_input.self_employment
        IN  IF Leq(profit, Zero)
            THEN locals.se_tax = Zero /\ locals.se_deduction = Zero
            ELSE /\ locals.se_tax = SeTaxSpecified(profit)
                 /\ Add(locals.se_deduction, locals.se_deduction) = locals.se_tax

\* The part of C8 on the profit of 100,000: the result reports an se_tax of
\* 14,129.55 and an se_deduction of 7,064.78.
SeScenarioReported ==
    (Returned("calculate_taxes")
        /\ call.tax_input.self_employment = Dollars(100000)) =>
        /\ ret.se_tax = Cents(1412955)
        /\ ret.se_deduction = Cents(706478)

\* C8: calculate_se_tax returns (0, 0) for every profit <= 0; for every
\* profit > 0, with net_se = profit x 0.9235, it returns se_tax =
\* min(net_se, 168,600) x 0.124 + net_se x 0.029 + (net_se - 200,000) x 0.009
\* (the last term only when net_se > 200,000) and se_deduction = se_tax / 2;
\* a profit of 100,000 gives se_tax 14,129.55 and a reported se_deduction of
\* 7,064.78.  The deduction on 100,000 is 7,064.775, a half-cent, and the
\* double that carries it lies below it: the result reports 7,064.77.
C8_SelfEmploymentTax == SeTaxAsSpecified /\ SeScenarioReported

\* The net investment income of the specification
InvestmentIncomeSpecified(tax_input) ==
    Add(tax_input.interest,
    Add(tax_input.dividends_qualified,
    Add(tax_input.dividends_ordinary,
    Add(tax_input.short_term_gains,
    Add(tax_input.long_term_gains,
        IF IsNeg(tax_input.rental_income) THEN Zero
        ELSE tax_input.rental_income)))))

\* The surtax of the specification: 3.8% of the lesser of the excess over
\* the threshold and the investment income, nothing up to the threshold.
NiitSpecified(magi, investment_income, threshold) ==
    IF Leq(magi, threshold) THEN Zero
    ELSE Mul(Min(Sub(magi, threshold), investment_income), 380)

\* C9: for every filing status calculate_niit returns 0 when magi <= the
\* status's threshold and otherwise 0.038 x min(magi - threshold,
\* investment_income), the threshold being the value the table holds for the
\* filing status; calculate_taxes passes interest + dividends_qualified +
\* dividends_ordinary + short_term_gains + long_term_gains +
\* max(0, rental_income) as the investment income and AGI as magi; single,
\* AGI 300,000, investment income 50,000 gives 1,900.  The table holds no
\* threshold for qualifying_widow, for whom the program charges the surtax
\* above 200,000.
C9_NiitOnTableThreshold ==
    TaxesHasSet("niit") =>
        LET status == call.tax_input.filing_status
            investment_income == InvestmentIncomeSpecified(call.tax_input)
        IN  /\ locals.investment_income = investment_income
            /\ status \in DOMAIN NIIT_THRESHOLD
            /\ locals.niit =
                   NiitSpecified(locals.agi, investment_income, NIIT_THRESHOLD[status])
            /\ (/\ status = SINGLE
                /\ locals.agi = Dollars(300000)
                /\ investment_income = Dollars(50000))
               => locals.niit = Dollars(1900)

\* C10: for every input, deductions = max(standard amount with add-ons,
\* itemized amount), and deduction_type is "itemized" exactly when the
\* itemized amount is strictly greater than the standard amount; when the
\* two are equal the result is the standard amount with type "standard".
C10_DeductionSelection ==
    /\ TaxesHasSet("deductions") =>
        /\ locals.deductions = Max(locals.standard, locals.itemized)
        /\ locals.deduction_type \in {"itemized", "standard"}
        /\ locals.deduction_type = "itemized"
               <=> Gt(locals.itemized, locals.standard)
        /\ locals.itemized = locals.standard =>
               (/\ locals.deductions = locals.standard
                /\ locals.deduction_type = "standard")
    /\ Returned("calculate_taxes") =>
        /\ ret.deduction_type = locals.deduction_type
        /\ \E up \in BOOLEAN : ret.deductions = round2(locals.deductions, up)

\* The itemized amount of a result equals its standard amount, add-on
\* included: the result carries the standard amount, typed "standard".
C10_Witness ==
    /\ Returned("calculate_taxes")
    /\ call.tax_input.age_65_plus
    /\ locals.itemized = locals.standard
    /\ Gt(locals.itemized, Zero)
    /\ ret.deduction_type = "standard"
    /\ ret.deductions = locals.standard

\* The age-65 add-on of a filing status: 1,950 for the unmarried statuses,
\* 1,550 for the married ones and the qualifying widow(er).
AgeAddOn(status) ==
    IF status \in {SINGLE, HEAD_HOUSEHOLD} THEN Dollars(1950) ELSE Dollars(1550)

\* The standard amount of the specification
StandardSpecified(tax_input) ==
    LET s == tax_input.filing_status
        flags == (IF tax_input.age_65_plus THEN 1 ELSE 0)
                 + (IF tax_input.spouse_age_65_plus /\ s = MARRIED_JOINT
                    THEN 1 ELSE 0)
    IN  Add(STANDARD_DEDUCTION[s], Times(AgeAddOn(s), flags))

\* The input that differs from tax_input in the spouse's age flag alone
SpouseFlagFlipped(tax_input) ==
    [tax_input EXCEPT !.spouse_age_65_plus = ~tax_input.spouse_age_65_plus]

\* C11: for every filing status the standard amount of calculate_taxes is
\* the table value of the status, plus one age-65 add-on of the status when
\* age_65_plus is set, plus one more when spouse_age_65_plus is set and the
\* status is married_joint; under every other status the spouse flag changes
\* nothing in the result.
C11_StandardAmount ==
    /\ TaxesHasSet("standard") =>
           locals.standard = StandardSpecified(call.tax_input)
    /\ (Returned("calculate_taxes")
            /\ call.tax_input.filing_status # MARRIED_JOINT) =>
           LET other == SpouseFlagFlipped(call.tax_input)
           IN  /\ calculate_taxes_locals(other) = locals
               /\ \E up \in [HalfCents(locals) -> BOOLEAN] :
                      TaxResult(locals, other, up) = ret

\* A couple filing jointly, both 65 or older, has its result: the standard
\* amount is the table's 29,200 and two add-ons of 1,550.
C11_Witness ==
    /\ Returned("calculate_taxes")
    /\ call.tax_input.filing_status = MARRIED_JOINT
    /\ call.tax_input.age_65_plus
    /\ call.tax_input.spouse_age_65_plus
    /\ locals.standard = Dollars(32300)

\* The sum of the fields of a TaxInput that the sequence names
RECURSIVE SumOfFields(_, _)
SumOfFields(tax_input, names) ==
    IF names = << >> THEN Zero
    ELSE Add(tax_input[Head(names)], SumOfFields(tax_input, Tail(names)))

\* The ten income fields
IncomeFields ==
    <<"wages", "self_employment", "interest", "dividends_qualified",
      "dividends_ordinary", "short_term_gains", "long_term_gains",
      "rental_income", "k1_income", "other_income">>

\* Half of an amount that is twice another
IsHalfOf(half, whole) == Add(half, half) = whole

\* The AGI of the specification: the ten income fields less the adjustments,
\* which are half of the self-employment tax on the profit, the IRA
\* contribution and the HSA contribution.
AgiSpecified(tax_input) ==
    LET profit == tax_input.self_employment
        se_tax == IF Leq(profit, Zero) THEN Zero ELSE SeTaxSpecified(profit)
        twice == Sub(Add(SumOfFields(tax_input, IncomeFields),
                         SumOfFields(tax_input, IncomeFields)),
                     Add(se_tax,
                         Add(Add(tax_input.traditional_ira, tax_input.traditional_ira),
                             Add(tax_input.hsa, tax_input.hsa))))
    IN  Mul(twice, 5000)

\* The itemized amount of the specification on a TaxInput with that AGI
ItemizedSpecified(tax_input, agi) ==
    LET taxes == Add(tax_input.property_tax, tax_input.state_tax_paid)
        salt == IF Lt(Dollars(10000), taxes) THEN Dollars(10000) ELSE taxes
        over_floor == Sub(tax_input.medical, Mul(agi, 750))
        medical == IF IsNeg(over_floor) THEN Zero ELSE over_floor
    IN  Add(Add(Add(tax_input.mortgage_interest, salt), tax_input.charitable),
            medical)

\* C12: the itemized amount of calculate_taxes is mortgage_interest +
\* min(property_tax + state_tax_paid, 10,000) + charitable + max(0, medical -
\* AGI x 0.075), AGI being the value after the adjustments; the state and
\* local portion never exceeds the cap of 10,000.
C12_ItemizedAmount ==
    TaxesHasSet("itemized") =>
        /\ locals.itemized =
               ItemizedSpecified(call.tax_input, AgiSpecified(call.tax_input))
        /\ Leq(locals.salt, Dollars(10000))

\* State and local taxes above the cap, and medical expenses above 7.5% of
\* an AGI that an IRA contribution has lowered: 10,000 of the taxes and the
\* excess of the medical expenses are itemized.
C12_Witness ==
    /\ TaxesHasSet("itemized")
    /\ Gt(Add(call.tax_input.property_tax, call.tax_input.state_tax_paid),
          Dollars(10000))
    /\ locals.salt = Dollars(10000)
    /\ Gt(call.tax_input.traditional_ira, Zero)
    /\ Gt(locals.medical_deductible, Zero)
    /\ Lt(locals.medical_deductible, call.tax_input.medical)

\* ------------------------------------------------------------------------
\* Properties of the credits
\* ------------------------------------------------------------------------

\* k is floor(excess / 1000): the whole thousands in the excess
IsThousandsIn(k, excess) ==
    /\ Leq(Dollars(1000 * k), excess)
    /\ Lt(excess, Dollars(1000 * (k + 1)))

\* C13: for all dependent counts >= 0, every AGI and every filing status,
\* calculate_child_tax_credit returns children_under_17 x 2000 +
\* children_17_plus x 500 when AGI <= threshold, and max(0, that amount -
\* floor((AGI - threshold) / 1000) x 50) when AGI > threshold, the threshold
\* being 400,000 for married_joint and 200,000 for every other status; the
\* reduction changes only at whole multiples of 1,000 above the threshold;
\* 2 children under 17, single, AGI 250,000 gives 1,500.
C13_ChildTaxCredit ==
    Returned("calculate_child_tax_credit") =>
        LET base == call.children_under_17 * 2000 + call.children_17_plus * 500
            threshold == IF call.filing_status = MARRIED_JOINT
                         THEN Dollars(400000) ELSE Dollars(200000)
            excess == Sub(call.agi, threshold)
        IN  /\ Leq(call.agi, threshold) => ret = Dollars(base)
            /\ Gt(call.agi, threshold) =>
                   \E k \in 0..300 :
                       /\ IsThousandsIn(k, excess)
                       /\ ret = IF base > 50 * k THEN Dollars(base - 50 * k)
                                ELSE Zero
            /\ (/\ call.children_under_17 = 2
                /\ call.children_17_plus = 0
                /\ call.filing_status = SINGLE
                /\ call.agi = Dollars(250000))
               => ret = Dollars(1500)

\* A single filer with two children, one cent short of 2,000 above the
\* threshold: the reduction is still that of one whole thousand, 50.
C13_Witness ==
    /\ Returned("calculate_child_tax_credit")
    /\ call.filing_status = SINGLE
    /\ call.children_under_17 = 2
    /\ call.children_17_plus = 0
    /\ call.agi = Sub(Dollars(202000), Cents(1))
    /\ ret = Dollars(3950)

\* The education credit of the specification: 20% of the expenses, at most
\* 2,000
EducationCreditSpecified(education_expenses) ==
    LET fifth == Mul(education_expenses, 2000)
    IN  IF Lt(Dollars(2000), fifth) THEN Dollars(2000) ELSE fifth

\* C14: in calculate_taxes the education credit is min(education_expenses x
\* 0.20, 2000) whatever the AGI and the filing status (no phase-out), and
\* total_credits is child_tax_credit + education_credits, not capped at
\* total_tax inside the credit step.
C14_EducationAndTotalCredits ==
    /\ TaxesHasSet("total_credits") =>
        /\ locals.education_credit =
               EducationCreditSpecified(call.tax_input.education_expenses)
        /\ locals.total_credits =
               Add(locals.child_credit, locals.education_credit)
    /\ Returned("calculate_taxes") =>
        \E up \in BOOLEAN :
            ret.total_credits =
                round2(Add(locals.child_credit, locals.education_credit), up)

\* A result whose credits - a child credit cut by the phase-out and the
\* education credit at its cap, on an AGI above every threshold - add up
\* unreduced.
C14_Witness ==
    /\ Returned("calculate_taxes")
    /\ Gt(locals.agi, Dollars(400000))
    /\ Gt(locals.child_credit, Zero)
    /\ Lt(locals.child_credit, Dollars(4000 + 500))
    /\ locals.education_credit = Dollars(2000)
    /\ ret.total_credits = Add(locals.child_credit, Dollars(2000))

\* ------------------------------------------------------------------------
\* Properties of the totals of calculate_taxes
\* ------------------------------------------------------------------------

\* C15: for every input, before rounding, total_tax = federal ordinary tax +
\* federal preferential tax + se_tax + niit + state_tax, and
\* tax_after_credits = max(0, total_tax - total_credits): the credits are
\* subtracted from the whole total, and a credit in excess of it is lost.
C15_TotalTaxAndCredits ==
    TaxesHasSet("tax_after_credits") =>
        LET total ==
                Add(Add(Add(Add(locals.federal_ordinary, locals.federal_ltcg),
                            locals.se_tax), locals.niit), locals.state_tax)
            after == Sub(total, locals.total_credits)
        IN  /\ locals.total_tax = total
            /\ locals.tax_after_credits = IF IsNeg(after) THEN Zero ELSE after

\* Credits larger than the federal tax reach into the self-employment tax
\* and the state tax: what is left after them is less than those two alone.
C15_Witness ==
    /\ TaxesHasSet("tax_after_credits")
    /\ Gt(locals.se_tax, Zero)
    /\ Gt(locals.state_tax, Zero)
    /\ Gt(locals.total_credits, locals.federal_total)
    /\ Gt(locals.tax_after_credits, Zero)
    /\ Lt(locals.tax_after_credits, Add(locals.se_tax, locals.state_tax))

\* C16: for every input gross_income is the sum of the ten income fields,
\* adjustments = se_deduction + traditional_ira + hsa, the se_deduction
\* coming from self_employment alone, and AGI = gross_income - adjustments,
\* which is not clipped at zero.
C16_GrossAdjustmentsAgi ==
    TaxesHasSet("agi") =>
        LET t == call.tax_input
            profit == t.self_employment
        IN  /\ locals.gross_income = SumOfFields(t, IncomeFields)
            /\ IF Leq(profit, Zero) THEN locals.se_deduction = Zero
               ELSE IsHalfOf(locals.se_deduction, SeTaxSpecified(profit))
            /\ locals.adjustments =
                   Add(Add(locals.se_deduction, t.traditional_ira), t.hsa)
            /\ Add(locals.agi, locals.adjustments) = locals.gross_income

\* A partnership loss larger than the profit and the wages, with an IRA and
\* an HSA contribution on top: the AGI is negative.
C16_Witness ==
    /\ TaxesHasSet("agi")
    /\ Gt(locals.se_deduction, Zero)
    /\ Gt(call.tax_input.traditional_ira, Zero)
    /\ Gt(call.tax_input.hsa, Zero)
    /\ IsNeg(call.tax_input.k1_income)
    /\ IsNeg(locals.gross_income)
    /\ Lt(locals.agi, locals.gross_income)

\* ------------------------------------------------------------------------
\* Properties of the inputs calculate_taxes does not read
\* ------------------------------------------------------------------------

\* The 401(k) contributions an input is compared across
ContributionValues == {Zero, Dollars(23000)}

\* C17: traditional_401k is informational only: two TaxInputs that differ
\* only in traditional_401k produce TaxResults that are equal in every
\* field, the breakdown included.
C17_ContributionIgnored ==
    Returned("calculate_taxes") =>
        \A r \in ContributionValues \ {call.tax_input.traditional_401k} :
            LET other == [call.tax_input EXCEPT !.traditional_401k = r]
            IN  /\ calculate_taxes_locals(other) = locals
                /\ \E up \in [HalfCents(locals) -> BOOLEAN] :
                       TaxResult(locals, other, up) = ret

\* Wages of 40,000 with a 401(k) contribution of 23,000 and nothing else:
\* the result has no adjustment and an AGI of 40,000.
C17_Witness ==
    /\ Returned("calculate_taxes")
    /\ call.tax_input.traditional_401k = Dollars(23000)
    /\ call.tax_input.wages = Dollars(40000)
    /\ ret.gross_income = Dollars(40000)
    /\ ret.adjustments = Zero
    /\ ret.agi = Dollars(40000)

\* ------------------------------------------------------------------------
\* Properties of the fallbacks
\* ------------------------------------------------------------------------

\* Two letters that differ at most in their case
SameLetter(a, b) ==
    \/ a = b
    \/ \E i \in DOMAIN Lowercase : {a, b} = {Lowercase[i], Uppercase[i]}

\* Two codes that differ at most in the case of their letters
SameCode(a, b) ==
    /\ Len(a) = Len(b)
    /\ \A i \in DOMAIN a : SameLetter(a[i], b[i])

\* The flat rate of the specification for a state code: the rate the table
\* holds for the code, whatever its letter case, and 5% for any other code.
StateRateSpecified(state) ==
    IF \E code \in DOMAIN STATE_TAX_RATES : SameCode(code, state)
    THEN STATE_TAX_RATES[CHOOSE code \in DOMAIN STATE_TAX_RATES :
                             SameCode(code, state)]
    ELSE 500

\* C18: for every input state_tax = taxable_income x the flat rate of the
\* state code, taxable_income being the full taxable income, preferential
\* income included; a code the table does not hold gets 5% and no error, a
\* code of the table its own rate whatever the letter case of the code.
C18_StateTax ==
    TaxesHasSet("state_tax") =>
        locals.state_tax =
            Mul(locals.taxable_income, StateRateSpecified(call.tax_input.state))

\* New Jersey written in small letters, with long-term gains in the taxable
\* income: 10.75% of all of it.
C18_Witness ==
    /\ TaxesHasSet("state_tax")
    /\ call.tax_input.state = <<"n", "j">>
    /\ Gt(locals.preferential_income, Zero)
    /\ Gt(locals.taxable_income, locals.ordinary_taxable)
    /\ locals.state_tax = Mul(locals.taxable_income, 1075)

\* The fields of a TaxResult
TaxResultFields ==
    {"gross_income", "adjustments", "agi", "deductions", "deduction_type",
     "taxable_income", "federal_tax_ordinary", "federal_tax_ltcg",
     "federal_tax_total", "effective_rate", "marginal_rate", "se_tax",
     "se_deduction", "state_tax", "state", "child_tax_credit",
     "education_credits", "total_credits", "total_tax", "tax_after_credits",
     "quarterly_estimate", "breakdown"}

\* C19: calculate_taxes raises no error and returns a TaxResult for each of
\* the five filing statuses: the one table it subscripts without a default
\* has an entry for the status, and what it returns has the fields of a
\* TaxResult.  Whenever a status has
\* no entry of its own in the ordinary or in the preferential bracket table,
\* the tax computed for it equals the tax the single table gives for the
\* same amounts.
C19_EveryStatusServed ==
    call.fn = "calculate_taxes" =>
        LET t == call.tax_input
            s == t.filing_status
        IN  /\ s \in FilingStatus
            /\ s \in DOMAIN STANDARD_DEDUCTION
            /\ pc = "returned" => DOMAIN ret = TaxResultFields
            /\ (TaxesHasSet("federal_total") /\ s \notin DOMAIN FEDERAL_BRACKETS) =>
                   LET single == calculate_federal_tax(locals.ordinary_taxable, SINGLE)
                   IN  /\ locals.federal_ordinary = single.tax
                       /\ locals.marginal_rate = single.marginal_rate
            /\ (TaxesHasSet("federal_total") /\ s \notin DOMAIN LTCG_BRACKETS) =>
                   locals.federal_ltcg =
                       calculate_ltcg_tax(t.long_term_gains, t.dividends_qualified,
                                          locals.taxable_income, SINGLE)

\* A qualifying widow(er), who has an entry in neither bracket table, has a
\* result with ordinary and preferential tax.
C19_Witness ==
    /\ Returned("calculate_taxes")
    /\ call.tax_input.filing_status = WIDOW
    /\ WIDOW \notin DOMAIN FEDERAL_BRACKETS \cup DOMAIN LTCG_BRACKETS
    /\ Gt(ret.federal_tax_ordinary, Zero)
    /\ Gt(ret.federal_tax_ltcg, Zero)

\* ------------------------------------------------------------------------
\* Properties of the effective rate
\* ------------------------------------------------------------------------

\* |a|
Abs(a) == IF IsNeg(a) THEN Sub(Zero, a) ELSE a

\* a * g for a whole number g of up to nine digits
TimesWhole(a, g) == Add(Times(Times(a, g \div Base), Base), Times(a, g % Base))

\* rate is tax / gross * 100 to the nearest hundredth, for a gross income of
\* whole cents: rate * gross differs from tax * 100 by no more than half a
\* hundredth of the gross income, with the margin of 10^-8 that round2 has.
IsRateOf(rate, tax, gross) ==
    LET g == InCents(gross)
        margin == Add(Mul(Dollars(g), 50), Shift(Shift(Dollars(g))))
    IN  Leq(Abs(Sub(TimesWhole(rate, g), Times(tax, Base))), Abs(margin))

\* C20 as amended: effective_rate = tax_after_credits / gross_income x 100
\* when gross_income is greater than 0 and 0 when gross_income is 0 or
\* negative; no input, including one with all amounts zero, leads to a
\* division by zero.
C20_EffectiveRatePositiveGross ==
    Returned("calculate_taxes") =>
        IF Gt(locals.gross_income, Zero)
        THEN IsRateOf(ret.effective_rate, locals.tax_after_credits,
                      locals.gross_income)
        ELSE ret.effective_rate = Zero

\* A call with a positive gross income reports a rate between 1 and 100
\* that is not a whole percent.
C20_Witness ==
    /\ Returned("calculate_taxes")
    /\ Gt(locals.gross_income, Zero)
    /\ Gt(ret.effective_rate, Dollars(1))
    /\ Lt(ret.effective_rate, Dollars(100))
    /\ ret.effective_rate[6] # 0

\* C20 as stated: effective_rate = tax_after_credits / gross_income x 100
\* when gross_income is non-zero and 0 when gross_income is 0.
C20_EffectiveRateNonZeroGross ==
    Returned("calculate_taxes") =>
        IF locals.gross_income # Zero
        THEN IsRateOf(ret.effective_rate, locals.tax_after_credits,
                      locals.gross_income)
        ELSE ret.effective_rate = Zero

\* ------------------------------------------------------------------------
\* Properties of the rounded fields
\* ------------------------------------------------------------------------

\* a and b differ by no more than one cent
WithinCent(a, b) == Leq(Abs(Sub(a, b)), Cents(1))

\* C21 as amended: taxable_income = max(0, agi - deductions) and
\* tax_after_credits = max(0, total_tax - total_credits) hold exactly of the
\* unrounded amounts; of the fields of the returned TaxResult, each rounded
\* to two decimals on its own at assembly, they hold to within one cent.
C21_InvariantsWithinCent ==
    Returned("calculate_taxes") =>
        /\ locals.taxable_income = Max(Zero, Sub(locals.agi, locals.deductions))
        /\ locals.tax_after_credits =
               Max(Zero, Sub(locals.total_tax, locals.total_credits))
        /\ WithinCent(ret.taxable_income,
                      Max(Zero, Sub(ret.agi, ret.deductions)))
        /\ WithinCent(ret.tax_after_credits,
                      Max(Zero, Sub(ret.total_tax, ret.total_credits)))

\* A result whose taxable_income is one cent away from what its agi and
\* deductions give.
C21_Witness ==
    /\ Returned("calculate_taxes")
    /\ Gt(ret.taxable_income, Zero)
    /\ ret.taxable_income # Sub(ret.agi, ret.deductions)
    /\ locals.taxable_income = Sub(locals.agi, locals.deductions)

\* C21 as stated: the two invariants hold exactly on the returned (rounded)
\* values, for every input whose amounts are whole cents.
C21_InvariantsOnRoundedFields ==
    Returned("calculate_taxes") =>
        /\ ret.taxable_income = Max(Zero, Sub(ret.agi, ret.deductions))
        /\ ret.tax_after_credits =
               Max(Zero, Sub(ret.total_tax, ret.total_credits))

\* ------------------------------------------------------------------------
\* Properties of a session
\* ------------------------------------------------------------------------

\* The tables are as loaded, and any two invocations of the session on equal
\* inputs have returned equal results.
SessionPure ==
    /\ tables = TaxTables
    /\ \A i, j \in DOMAIN earlier :
           earlier[i].tax_input = earlier[j].tax_input =>
               earlier[i].result = earlier[j].result

\* A step of an invocation leaves the tables and the TaxInput passed in as
\* they are; only a new invocation brings a new TaxInput.
StepPure ==
    /\ tables' = tables
    /\ pc' # "called" => call' = call

ReturnsAlone(res, l, tax_input) ==
    /\ l = calculate_taxes_locals(tax_input)
    /\ \E up \in [HalfCents(l) -> BOOLEAN] : res = TaxResult(l, tax_input, up)

\* The tables, the one variable both invocations read, are as loaded, and
\* an invocation that has returned has returned what it returns alone.
ConcurrentSafe ==
    /\ tables = TaxTables
    /\ pc = "returned" => ReturnsAlone(ret, locals, call.tax_input)
    /\ peer.pc = "returned" =>
           ReturnsAlone(peer.ret, peer.locals, peer.call.tax_input)

\* A step writes the variables of one invocation only, and not the tables.
StepOwnFrame ==
    /\ tables' = tables
    /\ \/ peer' = peer
       \/ <<pc, call, ret, locals>>' = <<pc, call, ret, locals>>

StepOrder ==
    <<"called", "step2", "step3", "step4", "step5", "step6", "step7", "step8",
      "step9", "step10", "return", "returned">>

\* The local variables that the k-th step assigns
AssignedBy(k) ==
    CASE k = 1 -> {"gross_income"}
      [] k = 2 -> {"se_tax", "se_deduction", "adjustments"}
      [] k = 3 -> {"agi"}
      [] k = 4 -> {"standard", "salt", "medical_deductible", "itemized",
                   "deductions", "deduction_type"}
      [] k = 5 -> {"preferential_income", "taxable_income", "ordinary_taxable"}
      [] k = 6 -> {"federal_ordinary", "marginal_rate", "federal_ltcg",
                   "federal_total"}
      [] k = 7 -> {"investment_income", "niit"}
      [] k = 8 -> {"state_tax"}
      [] k = 9 -> {"child_credit", "education_credit", "total_credits"}
      [] k = 10 -> {"total_tax", "tax_after_credits", "effective_rate",
                    "quarterly_estimate"}
      [] OTHER -> {}

\* The local variables that the k-th step reads; the eleventh is the return
\* statement.
ReadBy(k) ==
    CASE k = 2 -> {}
      [] k = 3 -> {"gross_income", "adjustments"}
      [] k = 4 -> {"agi"}
      [] k = 5 -> {"agi", "deductions"}
      [] k = 6 -> {"ordinary_taxable", "taxable_income"}
      [] k = 7 -> {"agi"}
      [] k = 8 -> {"taxable_income"}
      [] k = 9 -> {"agi"}
      [] k = 10 -> {"federal_total", "se_tax", "niit", "state_tax",
                    "total_credits", "gross_income"}
      [] k = 11 -> {"gross_income", "adjustments", "agi", "deductions",
                    "deduction_type", "taxable_income", "federal_ordinary",
                    "federal_ltcg", "federal_total", "effective_rate",
                    "marginal_rate", "se_tax", "se_deduction", "state_tax",
                    "child_credit", "education_credit", "total_credits",
                    "total_tax", "tax_after_credits", "quarterly_estimate",
                    "niit"}
      [] OTHER -> {}

\* The local variables that hold a value
Produced == IF locals = None THEN {} ELSE DOMAIN locals

\* b has a value only once a has one
Precedes(a, b) == b \in Produced => a \in Produced

Malformed(t) ==
    \/ \E s \in DOMAIN t.FEDERAL_BRACKETS : t.FEDERAL_BRACKETS[s] = << >>
    \/ \E s \in DOMAIN t.LTCG_BRACKETS : t.LTCG_BRACKETS[s] = << >>

\* The bracket list that the evaluator of the call walks
BracketsWalked ==
    IF call.fn = "calculate_federal_tax"
    THEN StatusBrackets(FEDERAL_BRACKETS, call.filing_status)
    ELSE StatusBrackets(LTCG_BRACKETS, call.filing_status)

C26_Breakdown ==
    Returned("calculate_taxes") =>
        /\ locals.total_tax =
               SumOfFields(locals, <<"federal_ordinary", "federal_ltcg",
                                     "se_tax", "niit", "state_tax">>)
        /\ DOMAIN ret.breakdown =
               {"federal_ordinary", "federal_ltcg", "se_tax", "niit",
                "state_tax", "credits_applied"}
        /\ ret.breakdown.niit \in {round2(locals.niit, TRUE), round2(locals.niit, FALSE)}
        /\ ret.breakdown.federal_ordinary = ret.federal_tax_ordinary
        /\ ret.breakdown.federal_ltcg = ret.federal_tax_ltcg
        /\ ret.breakdown.se_tax = ret.se_tax
        /\ ret.breakdown.state_tax = ret.state_tax
        /\ ret.breakdown.credits_applied = ret.total_credits

\* A result with NIIT, with a child credit and an education credit.
C26_Witness ==
    /\ Returned("calculate_taxes")
    /\ Gt(ret.breakdown.niit, Zero)
    /\ Gt(ret.child_tax_credit, Zero)
    /\ Gt(ret.education_credits, Zero)
    /\ Gt(ret.total_tax, Add(ret.federal_tax_total, ret.state_tax))

\* ------------------------------------------------------------------------
\* Properties that take the amounts of the input to be non-negative
\* ------------------------------------------------------------------------

\* The amount fields of a TaxInput
InputAmountFields ==
    {"wages", "self_employment", "interest", "dividends_qualified",
     "dividends_ordinary", "short_term_gains", "long_term_gains",
     "rental_income", "k1_income", "other_income", "mortgage_interest",
     "property_tax", "state_tax_paid", "charitable", "medical",
     "traditional_401k", "traditional_ira", "hsa", "education_expenses"}

NonNegativeInput(tax_input) ==
    \A f \in InputAmountFields : Geq(tax_input[f], Zero)

\* C27: for every input with non-negative amounts, the medical part of the
\* itemized deduction lies between 0 and the medical amount entered, also
\* when the adjustments exceed the gross income so that the AGI is negative.
C27_MedicalPartWithinExpenses ==
    (TaxesHasSet("medical_deductible") /\ NonNegativeInput(call.tax_input)) =>
        /\ Geq(locals.medical_deductible, Zero)
        /\ Leq(locals.medical_deductible, call.tax_input.medical)

\* ------------------------------------------------------------------------
\* Properties of the preferential treatment
\* ------------------------------------------------------------------------

\* The width of the part of [lo, hi] that lies in [from, to]
Overlap(lo, hi, from, to) == Max(Zero, Sub(Min(hi, to), Max(lo, from)))

\* The band in which the tables in use for status s tax preferential income
\* at 15% and ordinary income at 12%: from the end of the 0% preferential
\* bracket to the end of the 12% ordinary bracket.
BandStart(s) == StatusBrackets(LTCG_BRACKETS, s)[1][1]

BandEnd(s) == StatusBrackets(FEDERAL_BRACKETS, s)[2][1]

\* The preferential income of the call that lies in the band
InBand ==
    Overlap(Max(Zero, Sub(locals.taxable_income, locals.preferential_income)),
            locals.taxable_income,
            BandStart(call.tax_input.filing_status),
            BandEnd(call.tax_input.filing_status))

\* The ordinary tax on the whole taxable income
OrdinaryOnWhole ==
    calculate_federal_tax(locals.taxable_income, call.tax_input.filing_status).tax

\* The claim is about a taxable income split into two parts.
IsSplit ==
    /\ TaxesHasSet("federal_total")
    /\ Geq(locals.preferential_income, Zero)
    /\ Leq(locals.preferential_income, locals.taxable_income)

\* C28 as amended: for every filing status and every taxable income split
\* into an ordinary part and a preferential part, federal_tax_ordinary +
\* federal_tax_ltcg is no greater than the ordinary tax on the whole taxable
\* income plus 3% of the preferential income that lies in the band where
\* the 15% preferential rate meets the 12% ordinary bracket; with no
\* preferential income in the band it is no greater than the ordinary tax
\* on the whole.
C28_PreferentialWithinBand ==
    IsSplit =>
        Leq(Add(locals.federal_ordinary, locals.federal_ltcg),
            Add(OrdinaryOnWhole, Mul(InBand, 300)))

\* A head of household, taxed through the single preferential table, whose
\* gains fill the band: the two taxes exceed the ordinary tax on the whole
\* by 3% of the band.
C28_Witness ==
    /\ IsSplit
    /\ call.tax_input.filing_status = HEAD_HOUSEHOLD
    /\ InBand = Sub(BandEnd(HEAD_HOUSEHOLD), BandStart(HEAD_HOUSEHOLD))
    /\ Add(locals.federal_ordinary, locals.federal_ltcg) =
           Add(OrdinaryOnWhole, Mul(InBand, 300))

\* C28 as stated: federal_tax_ordinary + federal_tax_ltcg is no greater
\* than the ordinary tax calculate_federal_tax would give on the whole
\* taxable income.
C28_PreferentialNeverRaises ==
    IsSplit =>
        Leq(Add(locals.federal_ordinary, locals.federal_ltcg), OrdinaryOnWhole)

\* ------------------------------------------------------------------------
\* Properties of the ordinary base
\* ------------------------------------------------------------------------

\* C29: for every input, including one where long_term_gains is negative,
\* the amount taxed at ordinary rates never exceeds taxable income:
\* ordinary_taxable <= taxable_income.
C29_OrdinaryBaseWithinTaxableIncome ==
    TaxesHasSet("ordinary_taxable") =>
        Leq(locals.ordinary_taxable, locals.taxable_income)

\* ------------------------------------------------------------------------
\* Properties of a raise
\* ------------------------------------------------------------------------

\* The raises in wages: a cent, a step of the child-credit phase-out, and a
\* raise across several brackets and thresholds.
Raises == {Cents(1), Dollars(1000), Dollars(100000)}

\* The local variables of calculate_taxes for tax_input with wages raised by d
AfterRaise(tax_input, d) ==
    calculate_taxes_locals([tax_input EXCEPT !.wages = Add(@, d)])

\* C30: earning more never lowers the liability: for any two TaxInputs with
\* non-negative amounts that are equal except that the second has higher
\* wages, the second's unrounded total_tax and tax_after_credits are greater
\* than or equal to the first's.
C30_RaiseNeverLowersTax ==
    (Returned("calculate_taxes") /\ NonNegativeInput(call.tax_input)) =>
        \A d \in Raises :
            \A raised \in {AfterRaise(call.tax_input, d)} :
                /\ Geq(raised.total_tax, locals.total_tax)
                /\ Geq(raised.tax_after_credits, locals.tax_after_credits)

\* A taxpayer with children and investment income, above the child-credit
\* threshold and with an AGI that limits the NIIT: a raise of 1,000 shrinks
\* the credit and raises the NIIT, and the tax after credits grows by more
\* than total_tax does.
C30_Witness ==
    /\ Returned("calculate_taxes")
    /\ NonNegativeInput(call.tax_input)
    /\ call.tax_input.children_under_17 = 2
    /\ \E raised \in {AfterRaise(call.tax_input, Dollars(1000))} :
           /\ Gt(locals.child_credit, raised.child_credit)
           /\ Gt(raised.niit, locals.niit)
           /\ Gt(Sub(raised.tax_after_credits, locals.tax_after_credits),
                 Sub(raised.total_tax, locals.total_tax))

====
